---------------------------- MODULE Spec2Model ----------------------------
(***************************************************************************)
(* tegdb storage engine (src/src/engine.rs): an append-only log file, an   *)
(* in-memory ordered index (BTreeMap) rebuilt by replaying the log, and a  *)
(* compaction pass run by Engine::new.                                     *)
(*                                                                         *)
(* Byte strings (keys, values, file contents) are sequences of 0..255.     *)
(* A map (the index, the directory, the object heaps) is a function whose  *)
(* DOMAIN is the set of keys present.                                      *)
(***************************************************************************)
EXTENDS Integers, Sequences, FiniteSets, TLC

VARIABLES
    dir,       \* the directory: path -> inode number, for the paths that exist
    disk,      \* inode number -> bytes of the file, for the inodes in use
    logs,      \* the Arc<Mutex<Log>> objects: id -> [path, file (an inode number)]
    key_maps,  \* the Arc<RwLock<KeyMap>> objects: id -> KeyMap
    engines,   \* the live Engine handles: handle -> [log |-> id, key_map |-> id]
    last,      \* what the caller of the last operation passed and observed
    hist,      \* the keys whose last successful write was a set(key, v) with v
               \* not empty, each with that v (history of the calls)
    atClose,   \* index and log bytes when the last handle was dropped (history)
    poisoned,  \* the locks of the engine ("key_map", "log") that a panicking
               \* holder has poisoned
    chan,      \* log.rs: the mpsc channel of the writer thread
    writer,    \* log.rs: the writer thread, its BufWriter and its file
    producers, \* log.rs: the calls the producers have made (history)
    threads,   \* the threads that call the engine in parallel, each through
               \* its own clone: where each is inside its call, and its locals
    locks,     \* the RwLock of key_map (writer, readers) and the Mutex of log
    sched,     \* the workload of the threads, the calls made so far, and the
               \* index updates in the order they were made (history)
    opening    \* the Engine::new that runs step by step: its position, its
               \* locals, and how the last one ended

vars == <<dir, disk, logs, key_maps, engines, last, hist, atClose, poisoned,
          chan, writer, producers, threads, locks, sched, opening>>

---------------------------------------------------------------------------
(* Program constants and the bounds of the model.                          *)

MaxKeyLen == 1024
MaxValueLen == 262144

MaxHandles == 2
MaxLogBytes == 30

---------------------------------------------------------------------------
(* Maps.                                                                   *)

EmptyMap == << >>

Insert(m, k, v) == [x \in (DOMAIN m) \cup {k} |-> IF x = k THEN v ELSE m[x]]

Remove(m, k) == [x \in (DOMAIN m) \ {k} |-> m[x]]

Restrict(m, S) == [x \in (DOMAIN m) \cap S |-> m[x]]

\* Option<T>: None is the empty sequence, Some(v) the one-element sequence.
None == << >>

Some(v) == <<v>>

Lookup(m, k) == IF k \in DOMAIN m THEN Some(m[k]) ELSE None

\* The smallest id >= 1 that is not in use.
FreshId(used) == CHOOSE n \in 1..(Cardinality(used) + 1) :
                    n \notin used /\ \A m \in 1..(n - 1) : m \in used

\* Vec<u8> ordering: byte-lexicographic, a proper prefix first.
LexLess(a, b) ==
    LET n    == IF Len(a) < Len(b) THEN Len(a) ELSE Len(b)
        diff == {i \in 1..n : a[i] # b[i]}
        at   == CHOOSE i \in diff : \A j \in diff : i <= j
    IN  IF diff = {} THEN Len(a) < Len(b) ELSE a[at] < b[at]

\* The keys of a set in BTreeMap iteration order.
RECURSIVE SortedKeys(_)
SortedKeys(S) ==
    IF S = {} THEN << >>
    ELSE LET least == CHOOSE k \in S : \A o \in S \ {k} : LexLess(k, o)
         IN  <<least>> \o SortedKeys(S \ {least})

---------------------------------------------------------------------------
(* The log record format.                                                  *)

to_be_bytes(n) ==
    << (n \div 16777216) % 256, (n \div 65536) % 256, (n \div 256) % 256, n % 256 >>

from_be_bytes(b) == b[1] * 16777216 + b[2] * 65536 + b[3] * 256 + b[4]

\* Faulty variant of write_entry: the file position is not moved to the
\* end, the record goes over the first bytes of the file.
write_entry_at_start(bytes, key, value) ==
    IF Len(key) > MaxKeyLen \/ Len(value) > MaxValueLen
    THEN [panic |-> TRUE, bytes |-> bytes]
    ELSE LET buffer == to_be_bytes(Len(key)) \o to_be_bytes(Len(value))
                          \o key \o value
         IN  [panic |-> FALSE,
              bytes |-> buffer \o SubSeq(bytes, Len(buffer) + 1, Len(bytes))]

\* Log::write_entry on the bytes of the file: the entry goes to the end of
\* the file; a key or value over the limits panics.
write_entry(bytes, key, value) ==
    IF Len(key) > MaxKeyLen \/ Len(value) > MaxValueLen
    THEN [panic |-> TRUE, bytes |-> bytes]
    ELSE [panic |-> FALSE,
          bytes |-> bytes \o to_be_bytes(Len(key)) \o to_be_bytes(Len(value))
                          \o key \o value]

\* Faulty variant of replay: a record with value_len = 0 is skipped instead of
\* removing its key.
RECURSIVE replay_keep_deleted(_, _, _)
replay_keep_deleted(bytes, pos, key_map) ==
    IF ~(pos < Len(bytes)) THEN [panic |-> FALSE, key_map |-> key_map]
    ELSE IF pos + 8 > Len(bytes) THEN [panic |-> TRUE, key_map |-> key_map]
    ELSE
      LET key_len   == from_be_bytes(SubSeq(bytes, pos + 1, pos + 4))
          value_len == from_be_bytes(SubSeq(bytes, pos + 5, pos + 8))
          value_pos == pos + 4 + 4 + key_len
      IN  IF value_pos + value_len > Len(bytes)
          THEN [panic |-> TRUE, key_map |-> key_map]
          ELSE
            LET key   == SubSeq(bytes, pos + 9, value_pos)
                value == SubSeq(bytes, value_pos + 1, value_pos + value_len)
            IN  replay_keep_deleted(bytes, value_pos + value_len,
                       IF value_len = 0 THEN key_map
                                        ELSE Insert(key_map, key, value))

\* The loop of Log::build_key_map from offset pos: read_exact panics
\* (unwrap) when fewer bytes than asked for are left.
RECURSIVE replay(_, _, _)
replay(bytes, pos, key_map) ==
    IF ~(pos < Len(bytes)) THEN [panic |-> FALSE, key_map |-> key_map]
    ELSE IF pos + 8 > Len(bytes) THEN [panic |-> TRUE, key_map |-> key_map]
    ELSE
      LET key_len   == from_be_bytes(SubSeq(bytes, pos + 1, pos + 4))
          value_len == from_be_bytes(SubSeq(bytes, pos + 5, pos + 8))
          value_pos == pos + 4 + 4 + key_len
      IN  IF value_pos + value_len > Len(bytes)
          THEN [panic |-> TRUE, key_map |-> key_map]
          ELSE
            LET key   == SubSeq(bytes, pos + 9, value_pos)
                value == SubSeq(bytes, value_pos + 1, value_pos + value_len)
            IN  replay(bytes, value_pos + value_len,
                       IF value_len = 0 THEN Remove(key_map, key)
                                        ELSE Insert(key_map, key, value))

build_key_map(bytes) == replay(bytes, 0, EmptyMap)

\* Faulty variant of replay_step: the next record is looked for behind the
\* key, the value bytes are not skipped.
replay_step_short(bytes, pos, key_map) ==
    IF pos + 8 > Len(bytes)
    THEN [panic |-> TRUE, pos |-> pos, key_map |-> key_map]
    ELSE
      LET key_len   == from_be_bytes(SubSeq(bytes, pos + 1, pos + 4))
          value_len == from_be_bytes(SubSeq(bytes, pos + 5, pos + 8))
          value_pos == pos + 4 + 4 + key_len
      IN  IF value_pos + value_len > Len(bytes)
          THEN [panic |-> TRUE, pos |-> pos, key_map |-> key_map]
          ELSE
            LET key   == SubSeq(bytes, pos + 9, value_pos)
                value == SubSeq(bytes, value_pos + 1, value_pos + value_len)
            IN  [panic   |-> FALSE,
                 pos     |-> value_pos,
                 key_map |-> IF value_len = 0 THEN Remove(key_map, key)
                                              ELSE Insert(key_map, key, value)]

\* One turn of the loop of Log::build_key_map, entered with pos < file_len.
replay_step(bytes, pos, key_map) ==
    IF pos + 8 > Len(bytes)
    THEN [panic |-> TRUE, pos |-> pos, key_map |-> key_map]
    ELSE
      LET key_len   == from_be_bytes(SubSeq(bytes, pos + 1, pos + 4))
          value_len == from_be_bytes(SubSeq(bytes, pos + 5, pos + 8))
          value_pos == pos + 4 + 4 + key_len
      IN  IF value_pos + value_len > Len(bytes)
          THEN [panic |-> TRUE, pos |-> pos, key_map |-> key_map]
          ELSE
            LET key   == SubSeq(bytes, pos + 9, value_pos)
                value == SubSeq(bytes, value_pos + 1, value_pos + value_len)
            IN  [panic   |-> FALSE,
                 pos     |-> value_pos + value_len,
                 key_map |-> IF value_len = 0 THEN Remove(key_map, key)
                                              ELSE Insert(key_map, key, value)]

---------------------------------------------------------------------------
(* The file system and the shared objects, threaded through the operations *)
(* as one record w = [dir, disk, logs, key_maps].  An Engine value e is    *)
(* [log |-> id, key_map |-> id]: its two Arc pointers.                     *)

World == [dir |-> dir, disk |-> disk, logs |-> logs, key_maps |-> key_maps]

\* A path is [stem, ext]; PathBuf::set_extension replaces the extension.
set_extension(path, ext) == [path EXCEPT !.ext = ext]

\* std::fs::rename: the name `to` now refers to the file of `from`.
rename(d, from, to) ==
    IF from = to THEN d ELSE Remove(Insert(d, to, d[from]), from)

\* What is left once the values no handle refers to are dropped: an Arc
\* whose last pointer is gone frees its Log or KeyMap, and a file that has
\* no name and no open handle is gone.
collect(w, roots) ==
    LET live_logs == Restrict(w.logs, {r.log : r \in roots})
        live_maps == Restrict(w.key_maps, {r.key_map : r \in roots})
        inodes    == {w.dir[p] : p \in DOMAIN w.dir}
                     \cup {live_logs[l].file : l \in DOMAIN live_logs}
    IN  [dir |-> w.dir, disk |-> Restrict(w.disk, inodes),
         logs |-> live_logs, key_maps |-> live_maps]

\* Log::new: open the file read+write, creating it when missing.
Log_new(w, path) ==
    IF path \in DOMAIN w.dir
    THEN [w |-> w, log |-> [path |-> path, file |-> w.dir[path]]]
    ELSE LET ino == FreshId(DOMAIN w.disk)
         IN  [w   |-> [w EXCEPT !.dir = Insert(w.dir, path, ino),
                                !.disk = Insert(w.disk, ino, << >>)],
              log |-> [path |-> path, file |-> ino]]

\* Engine::get
get(w, e, key) == Lookup(w.key_maps[e.key_map], key)

\* Faulty variants of del: the key leaves the index with no tombstone written; the
\* tombstone is written and the key stays in the index; the tombstone is
\* written without looking whether the key is there.
del_no_tombstone(w, e, key) ==
    LET key_map == w.key_maps[e.key_map]
    IN  IF key \notin DOMAIN key_map THEN [res |-> "Ok", w |-> w]
        ELSE [res |-> "Ok",
              w   |-> [w EXCEPT !.key_maps[e.key_map] = Remove(key_map, key)]]

del_keep_index(w, e, key) ==
    LET key_map == w.key_maps[e.key_map]
        file    == w.logs[e.log].file
        wr      == write_entry(w.disk[file], key, << >>)
    IN  IF key \notin DOMAIN key_map THEN [res |-> "Ok", w |-> w]
        ELSE IF wr.panic THEN [res |-> "panic", w |-> w]
        ELSE [res |-> "Ok", w |-> [w EXCEPT !.disk[file] = wr.bytes]]

del_always_append(w, e, key) ==
    LET key_map == w.key_maps[e.key_map]
        file    == w.logs[e.log].file
        wr      == write_entry(w.disk[file], key, << >>)
    IN  IF wr.panic THEN [res |-> "panic", w |-> w]
        ELSE [res |-> "Ok",
              w   |-> [w EXCEPT !.disk[file] = wr.bytes,
                                !.key_maps[e.key_map] = Remove(key_map, key)]]

\* Engine::del
del(w, e, key) ==
    LET key_map == w.key_maps[e.key_map]
        file    == w.logs[e.log].file
        wr      == write_entry(w.disk[file], key, << >>)
    IN  IF key \notin DOMAIN key_map THEN [res |-> "Ok", w |-> w]
        ELSE IF wr.panic THEN [res |-> "panic", w |-> w]
        ELSE [res |-> "Ok",
              w   |-> [w EXCEPT !.disk[file] = wr.bytes,
                                !.key_maps[e.key_map] = Remove(key_map, key)]]

\* Faulty variants of set: the index keeps the value a key already has; the record
\* is appended also when the value is the current one; an empty value is
\* written as a record and inserted; the value length is not checked; an
\* empty key is refused.
set_keep_existing(w, e, key, value) ==
    LET key_map == w.key_maps[e.key_map]
        file    == w.logs[e.log].file
        wr      == write_entry(w.disk[file], key, value)
    IN  IF Len(key) > MaxKeyLen THEN [res |-> "InvalidInput", w |-> w]
        ELSE IF Len(value) > MaxValueLen THEN [res |-> "InvalidInput", w |-> w]
        ELSE IF value = << >> THEN del(w, e, key)
        ELSE IF key \in DOMAIN key_map /\ key_map[key] = value
             THEN [res |-> "Ok", w |-> w]
        ELSE IF wr.panic THEN [res |-> "panic", w |-> w]
        ELSE [res |-> "Ok",
              w   |-> [w EXCEPT !.disk[file] = wr.bytes,
                                !.key_maps[e.key_map] = IF key \in DOMAIN key_map THEN key_map
                                                        ELSE Insert(key_map, key, value)]]

set_always_append(w, e, key, value) ==
    LET key_map == w.key_maps[e.key_map]
        file    == w.logs[e.log].file
        wr      == write_entry(w.disk[file], key, value)
    IN  IF Len(key) > MaxKeyLen THEN [res |-> "InvalidInput", w |-> w]
        ELSE IF Len(value) > MaxValueLen THEN [res |-> "InvalidInput", w |-> w]
        ELSE IF value = << >> THEN del(w, e, key)
        ELSE IF wr.panic THEN [res |-> "panic", w |-> w]
        ELSE [res |-> "Ok",
              w   |-> [w EXCEPT !.disk[file] = wr.bytes,
                                !.key_maps[e.key_map] = Insert(key_map, key, value)]]

set_no_delegate(w, e, key, value) ==
    LET key_map == w.key_maps[e.key_map]
        file    == w.logs[e.log].file
        wr      == write_entry(w.disk[file], key, value)
    IN  IF Len(key) > MaxKeyLen THEN [res |-> "InvalidInput", w |-> w]
        ELSE IF Len(value) > MaxValueLen THEN [res |-> "InvalidInput", w |-> w]
        ELSE IF key \in DOMAIN key_map /\ key_map[key] = value
             THEN [res |-> "Ok", w |-> w]
        ELSE IF wr.panic THEN [res |-> "panic", w |-> w]
        ELSE [res |-> "Ok",
              w   |-> [w EXCEPT !.disk[file] = wr.bytes,
                                !.key_maps[e.key_map] = Insert(key_map, key, value)]]

set_no_value_check(w, e, key, value) ==
    LET key_map == w.key_maps[e.key_map]
        file    == w.logs[e.log].file
        wr      == write_entry(w.disk[file], key, value)
    IN  IF Len(key) > MaxKeyLen THEN [res |-> "InvalidInput", w |-> w]
        ELSE IF value = << >> THEN del(w, e, key)
        ELSE IF key \in DOMAIN key_map /\ key_map[key] = value
             THEN [res |-> "Ok", w |-> w]
        ELSE IF wr.panic THEN [res |-> "panic", w |-> w]
        ELSE [res |-> "Ok",
              w   |-> [w EXCEPT !.disk[file] = wr.bytes,
                                !.key_maps[e.key_map] = Insert(key_map, key, value)]]

\* Faulty variant of set: the key length is not checked.
set_no_key_check(w, e, key, value) ==
    LET key_map == w.key_maps[e.key_map]
        file    == w.logs[e.log].file
        wr      == write_entry(w.disk[file], key, value)
    IN  IF Len(value) > MaxValueLen THEN [res |-> "InvalidInput", w |-> w]
        ELSE IF value = << >> THEN del(w, e, key)
        ELSE IF key \in DOMAIN key_map /\ key_map[key] = value
             THEN [res |-> "Ok", w |-> w]
        ELSE IF wr.panic THEN [res |-> "panic", w |-> w]
        ELSE [res |-> "Ok",
              w   |-> [w EXCEPT !.disk[file] = wr.bytes,
                                !.key_maps[e.key_map] = Insert(key_map, key, value)]]

set_reject_empty_key(w, e, key, value) ==
    LET key_map == w.key_maps[e.key_map]
        file    == w.logs[e.log].file
        wr      == write_entry(w.disk[file], key, value)
    IN  IF Len(key) > MaxKeyLen THEN [res |-> "InvalidInput", w |-> w]
        ELSE IF Len(value) > MaxValueLen THEN [res |-> "InvalidInput", w |-> w]
        ELSE IF key = << >> THEN [res |-> "InvalidInput", w |-> w]
        ELSE IF value = << >> THEN del(w, e, key)
        ELSE IF key \in DOMAIN key_map /\ key_map[key] = value
             THEN [res |-> "Ok", w |-> w]
        ELSE IF wr.panic THEN [res |-> "panic", w |-> w]
        ELSE [res |-> "Ok",
              w   |-> [w EXCEPT !.disk[file] = wr.bytes,
                                !.key_maps[e.key_map] = Insert(key_map, key, value)]]

\* Faulty variant of set: a value of exactly the greatest length is refused.
set_exclusive_limits(w, e, key, value) ==
    LET key_map == w.key_maps[e.key_map]
        file    == w.logs[e.log].file
        wr      == write_entry(w.disk[file], key, value)
    IN  IF Len(key) > MaxKeyLen THEN [res |-> "InvalidInput", w |-> w]
        ELSE IF Len(value) >= MaxValueLen THEN [res |-> "InvalidInput", w |-> w]
        ELSE IF value = << >> THEN del(w, e, key)
        ELSE IF key \in DOMAIN key_map /\ key_map[key] = value
             THEN [res |-> "Ok", w |-> w]
        ELSE IF wr.panic THEN [res |-> "panic", w |-> w]
        ELSE [res |-> "Ok",
              w   |-> [w EXCEPT !.disk[file] = wr.bytes,
                                !.key_maps[e.key_map] = Insert(key_map, key, value)]]

\* Engine::set
set(w, e, key, value) ==
    LET key_map == w.key_maps[e.key_map]
        file    == w.logs[e.log].file
        wr      == write_entry(w.disk[file], key, value)
    IN  IF Len(key) > MaxKeyLen THEN [res |-> "InvalidInput", w |-> w]
        ELSE IF Len(value) > MaxValueLen THEN [res |-> "InvalidInput", w |-> w]
        ELSE IF value = << >> THEN del(w, e, key)
        ELSE IF key \in DOMAIN key_map /\ key_map[key] = value
             THEN [res |-> "Ok", w |-> w]
        ELSE IF wr.panic THEN [res |-> "panic", w |-> w]
        ELSE [res |-> "Ok",
              w   |-> [w EXCEPT !.disk[file] = wr.bytes,
                                !.key_maps[e.key_map] = Insert(key_map, key, value)]]

\* Faulty variant of scan: the end of the range is included.
scan_inclusive_end(w, e, lo, hi) ==
    LET key_map == w.key_maps[e.key_map]
        inside  == {k \in DOMAIN key_map : ~LexLess(k, lo) /\ ~LexLess(hi, k)}
        keys    == SortedKeys(inside)
    IN  IF LexLess(hi, lo) THEN [res |-> "panic", out |-> << >>]
        ELSE [res |-> "Ok",
              out |-> [i \in 1..Len(keys) |-> <<keys[i], key_map[keys[i]]>>]]

\* Engine::scan: BTreeMap::range panics when the start is after the end.
scan(w, e, lo, hi) ==
    LET key_map == w.key_maps[e.key_map]
        inside  == {k \in DOMAIN key_map : ~LexLess(k, lo) /\ LexLess(k, hi)}
        keys    == SortedKeys(inside)
    IN  IF LexLess(hi, lo) THEN [res |-> "panic", out |-> << >>]
        ELSE [res |-> "Ok",
              out |-> [i \in 1..Len(keys) |-> <<keys[i], key_map[keys[i]]>>]]

\* The loop of Engine::construct_log over key_map.iter().
RECURSIVE copy_entries(_, _, _, _)
copy_entries(keys, key_map, bytes, new_key_map) ==
    IF keys = << >>
    THEN [panic |-> FALSE, bytes |-> bytes, new_key_map |-> new_key_map]
    ELSE LET key == Head(keys)
             wr  == write_entry(bytes, key, key_map[key])
         IN  IF wr.panic
             THEN [panic |-> TRUE, bytes |-> bytes, new_key_map |-> new_key_map]
             ELSE copy_entries(Tail(keys), key_map, wr.bytes,
                               Insert(new_key_map, key, key_map[key]))

\* File::set_len: cut the file to n bytes, or pad it with zero bytes.
set_len(bytes, n) ==
    [i \in 1..n |-> IF i <= Len(bytes) THEN bytes[i] ELSE 0]

\* Faulty variant of construct_log: the new file is not cut to zero length.
construct_log_no_truncate(w, e, path) ==
    LET o       == Log_new(w, path)
        key_map == w.key_maps[e.key_map]
        copied  == copy_entries(SortedKeys(DOMAIN key_map), key_map,
                                o.w.disk[o.log.file], EmptyMap)
    IN  [panic       |-> copied.panic,
         w           |-> [o.w EXCEPT !.disk[o.log.file] = copied.bytes],
         new_log     |-> o.log,
         new_key_map |-> copied.new_key_map]

\* Faulty variant of construct_log: the copy loop starts after the first entry.
construct_log_skip_first(w, e, path) ==
    LET o       == Log_new(w, path)
        key_map == w.key_maps[e.key_map]
        keys    == SortedKeys(DOMAIN key_map)
        copied  == copy_entries(IF keys = << >> THEN keys ELSE Tail(keys),
                                key_map, set_len(o.w.disk[o.log.file], 0),
                                EmptyMap)
    IN  [panic       |-> copied.panic,
         w           |-> [o.w EXCEPT !.disk[o.log.file] = copied.bytes],
         new_log     |-> o.log,
         new_key_map |-> copied.new_key_map]

\* Engine::construct_log
construct_log(w, e, path) ==
    LET o       == Log_new(w, path)
        key_map == w.key_maps[e.key_map]
        copied  == copy_entries(SortedKeys(DOMAIN key_map), key_map,
                                set_len(o.w.disk[o.log.file], 0), EmptyMap)
    IN  [panic       |-> copied.panic,
         w           |-> [o.w EXCEPT !.disk[o.log.file] = copied.bytes],
         new_log     |-> o.log,
         new_key_map |-> copied.new_key_map]

\* Engine::compact, for the handle e while the handles `others` exist.
compact(w, e, others) ==
    LET path     == w.logs[e.log].path
        tmp_path == set_extension(path, "new")
        c        == construct_log(w, e, tmp_path)
        new_log  == [c.new_log EXCEPT !.path = path]
        s        == [log     |-> FreshId(DOMAIN c.w.logs),
                     key_map |-> FreshId(DOMAIN c.w.key_maps)]
        swapped  == [dir      |-> rename(c.w.dir, c.new_log.path, path),
                     disk     |-> c.w.disk,
                     logs     |-> Insert(c.w.logs, s.log, new_log),
                     key_maps |-> Insert(c.w.key_maps, s.key_map, c.new_key_map)]
    IN  IF c.panic THEN [res |-> "panic", e |-> e, w |-> c.w]
        ELSE [res |-> "Ok", e |-> s, w |-> collect(swapped, others \cup {s})]

\* Engine::new
Engine_new(w, path) ==
    LET o     == Log_new(w, path)
        built == build_key_map(o.w.disk[o.log.file])
        s     == [log     |-> FreshId(DOMAIN o.w.logs),
                  key_map |-> FreshId(DOMAIN o.w.key_maps)]
        w1    == [o.w EXCEPT !.logs = Insert(o.w.logs, s.log, o.log),
                             !.key_maps = Insert(o.w.key_maps, s.key_map,
                                                 built.key_map)]
        c     == compact(w1, s, {})
    IN  IF built.panic THEN [res |-> "panic", e |-> s, w |-> o.w]
        ELSE IF c.res # "Ok" THEN [res |-> "panic", e |-> s, w |-> collect(c.w, {})]
        ELSE c

\* Engine::flush: sync_all changes no byte of the file.
flush(w, e) == [res |-> "Ok", w |-> w]

\* Faulty variant of drop: the log is compacted before the handle goes.
drop_compacting(w, e, others) ==
    LET c == compact(w, e, others)
    IN  [res |-> c.res, w |-> collect(c.w, others)]

\* Faulty variant of drop: the Log and the index go with the handle, shared
\* or not.
drop_freeing_shared(w, e, others) ==
    LET f == flush(w, e)
    IN  [res |-> f.res, w |-> collect(f.w, others \ {e})]

\* Drop for Engine, then the drop of its two Arc fields.
drop(w, e, others) ==
    LET f == flush(w, e)
    IN  [res |-> f.res, w |-> collect(f.w, others)]

---------------------------------------------------------------------------
(* The inputs the callers draw from, and the state machine.                *)

\* A key and a value one byte over the limits (built once, as tuples).
BigKey == [i \in 1..(MaxKeyLen + 1) |-> 1] \o << >>

BigValue == [i \in 1..(MaxValueLen + 1) |-> 0] \o << >>

Keys == {<< >>, <<1>>, <<1, 2>>, BigKey}

Values == {<< >>, <<7>>, <<8, 9>>, BigValue}

\* Scan ranges <<lo, hi>>: everything, one key, lo = hi, lo > hi.
Ranges == {<< << >>, <<2>> >>, << <<1>>, <<1, 2>> >>, << <<1>>, <<1>> >>,
           << <<1, 2>>, <<1>> >>}

DbPath == [stem |-> "t", ext |-> "db"]

\* What a session that was killed inside the compaction of its open leaves:
\* the log of the session before it (set(<<1>>, <<7>>), set(<< >>, <<7>>),
\* del(<< >>)) at the path, and the first bytes of the record the
\* compaction was writing in the sibling file.
OldLog ==
    write_entry(write_entry(write_entry(<< >>, <<1>>, <<7>>).bytes,
                            << >>, <<7>>).bytes,
                << >>, << >>).bytes

OldIndex == Insert(EmptyMap, <<1>>, <<7>>)

Leftover == <<0, 0, 0, 1, 0>>

\* op(key) or scan(key..hi) returned res (for get and scan: with out), having
\* appended that many bytes to the log file.
NoCall == [op |-> "none", key |-> << >>, hi |-> << >>,
           res |-> "Ok", out |-> << >>, appended |-> 0]

Call(op, key, res, out, appended) ==
    [op |-> op, key |-> key, hi |-> << >>,
     res |-> res, out |-> out, appended |-> appended]

NeverClosed == [closed |-> FALSE, key_map |-> EmptyMap, bytes |-> << >>]

\* The bytes of the log file a handle writes to, and its index.
LogBytes(w, e) == w.disk[w.logs[e.log].file]

Index(w, e) == w.key_maps[e.key_map]

Others(h) == {engines[o] : o \in (DOMAIN engines) \ {h}}

Become(w) ==
    /\ dir' = w.dir
    /\ disk' = w.disk
    /\ logs' = w.logs
    /\ key_maps' = w.key_maps

\* The engine of engine.rs does not use the writer thread of log.rs.
NoWriter ==
    /\ chan = [open |-> FALSE, queue |-> << >>]
    /\ writer = [running |-> FALSE, buf |-> << >>, file |-> << >>,
                 outcomes |-> << >>]
    /\ producers = [start |-> << >>, sent |-> << >>, promised |-> 0, calls |-> 0,
                    shut |-> -1]

\* No thread is inside a call: the calls of Spec run one after the other.
NoThreads ==
    /\ threads = << >>
    /\ locks = [writer |-> 0, readers |-> {}, mutex |-> 0]
    /\ sched = [workload |-> "none", calls |-> 0, commits |-> << >>]

\* No Engine::new is under way step by step.
NotOpening(path) ==
    [pc |-> "idle", path |-> path, end |-> "none", before |-> << >>,
     s |-> [log |-> 0, key_map |-> 0],
     new_log |-> [path |-> path, file |-> 0],
     new_key_map |-> EmptyMap, todo |-> << >>,
     pos |-> 0, key_map |-> EmptyMap]

OutsideEngine ==
    UNCHANGED <<chan, writer, producers, threads, locks, sched, opening>>

\* Before the first Engine::new: an empty directory, or the files of a
\* session killed inside its compaction.
Init ==
    /\ \E killed \in BOOLEAN :
          /\ dir = IF killed
                   THEN Insert(Insert(EmptyMap, DbPath, 1),
                               set_extension(DbPath, "new"), 2)
                   ELSE EmptyMap
          /\ disk = IF killed
                    THEN Insert(Insert(EmptyMap, 1, OldLog), 2, Leftover)
                    ELSE EmptyMap
          /\ hist = IF killed THEN OldIndex ELSE EmptyMap
    /\ logs = EmptyMap
    /\ key_maps = EmptyMap
    /\ engines = EmptyMap
    /\ last = NoCall
    /\ atClose = NeverClosed
    /\ poisoned = {}
    /\ NoWriter
    /\ NoThreads
    /\ opening = NotOpening(DbPath)

\* Engine::new(path), when no handle is open on the path. Its locks are new.
Open(path) ==
    /\ DOMAIN engines = {}
    /\ OutsideEngine
    /\ LET r == Engine_new(World, path)
       IN  /\ Become(r.w)
           /\ engines' = IF r.res = "Ok" THEN Insert(EmptyMap, 1, r.e) ELSE EmptyMap
           /\ last' = Call("open", << >>, r.res, << >>, 0)
    /\ poisoned' = {}
    /\ UNCHANGED <<hist, atClose>>

\* Faulty variant of Clone: the new handle gets a copy of the index.
Clone_deep_copy(h) ==
    /\ h \in DOMAIN engines
    /\ OutsideEngine
    /\ Cardinality(DOMAIN engines) < MaxHandles
    /\ LET id == FreshId(DOMAIN key_maps)
       IN  /\ key_maps' = Insert(key_maps, id, key_maps[engines[h].key_map])
           /\ engines' = Insert(engines, FreshId(DOMAIN engines),
                                [engines[h] EXCEPT !.key_map = id])
    /\ last' = Call("clone", << >>, "Ok", << >>, 0)
    /\ atClose' = NeverClosed
    /\ UNCHANGED <<dir, disk, logs, hist, poisoned>>

\* #[derive(Clone)]: the new handle shares both Arcs.
Clone(h) ==
    /\ h \in DOMAIN engines
    /\ OutsideEngine
    /\ Cardinality(DOMAIN engines) < MaxHandles
    /\ engines' = Insert(engines, FreshId(DOMAIN engines), engines[h])
    /\ last' = Call("clone", << >>, "Ok", << >>, 0)
    /\ atClose' = NeverClosed
    /\ UNCHANGED <<dir, disk, logs, key_maps, hist, poisoned>>

\* Faulty variant of Get: the entry read is taken out of the index.
Get_taking(h, key) ==
    /\ h \in DOMAIN engines
    /\ OutsideEngine
    /\ poisoned = {}
    /\ last' = Call("get", key, "Ok", get(World, engines[h], key), 0)
    /\ atClose' = NeverClosed
    /\ key_maps' = [key_maps EXCEPT ![engines[h].key_map] = Remove(@, key)]
    /\ UNCHANGED <<dir, disk, logs, engines, hist, poisoned>>

\* The operations below take their locks with lock().unwrap(): they run as
\* modelled here while no lock is poisoned.
Get(h, key) ==
    /\ h \in DOMAIN engines
    /\ OutsideEngine
    /\ poisoned = {}
    /\ last' = Call("get", key, "Ok", get(World, engines[h], key), 0)
    /\ atClose' = NeverClosed
    /\ UNCHANGED <<dir, disk, logs, key_maps, engines, hist, poisoned>>

Set(h, key, value) ==
    /\ h \in DOMAIN engines
    /\ OutsideEngine
    /\ poisoned = {}
    /\ LET r == set(World, engines[h], key, value)
           n == Len(LogBytes(r.w, engines[h]))
       IN  /\ n <= MaxLogBytes
           /\ Become(r.w)
           /\ last' = Call("set", key, r.res, << >>,
                           n - Len(LogBytes(World, engines[h])))
           /\ hist' = IF r.res # "Ok" THEN hist
                      ELSE IF value = << >>
                           THEN Remove(hist, key)
                           ELSE Insert(hist, key, value)
    /\ atClose' = NeverClosed
    /\ UNCHANGED <<engines, poisoned>>

Del(h, key) ==
    /\ h \in DOMAIN engines
    /\ OutsideEngine
    /\ poisoned = {}
    /\ LET r == del(World, engines[h], key)
           n == Len(LogBytes(r.w, engines[h]))
       IN  /\ n <= MaxLogBytes
           /\ Become(r.w)
           /\ last' = Call("del", key, r.res, << >>,
                           n - Len(LogBytes(World, engines[h])))
           /\ hist' = IF r.res # "Ok" THEN hist
                      ELSE Remove(hist, key)
    /\ atClose' = NeverClosed
    /\ UNCHANGED <<engines, poisoned>>

Scan(h, lo, hi) ==
    /\ h \in DOMAIN engines
    /\ OutsideEngine
    /\ poisoned = {}
    /\ LET r == scan(World, engines[h], lo, hi)
       IN  last' = [Call("scan", lo, r.res, r.out, 0) EXCEPT !.hi = hi]
    /\ atClose' = NeverClosed
    /\ UNCHANGED <<dir, disk, logs, key_maps, engines, hist, poisoned>>

\* A handle goes out of scope.
Drop(h) ==
    /\ h \in DOMAIN engines
    /\ OutsideEngine
    /\ poisoned = {}
    /\ LET r == drop(World, engines[h], Others(h))
       IN  /\ Become(r.w)
           /\ last' = Call("drop", << >>, r.res, << >>, 0)
    /\ engines' = Remove(engines, h)
    /\ atClose' = IF DOMAIN engines = {h}
                  THEN [closed  |-> TRUE,
                        key_map |-> Index(World, engines[h]),
                        bytes   |-> LogBytes(World, engines[h])]
                  ELSE NeverClosed
    /\ UNCHANGED <<hist, poisoned>>

Handles == 1..MaxHandles

Next ==
    \/ Open(DbPath)
    \/ \E h \in Handles : Clone(h)
    \/ \E h \in Handles, key \in Keys : Get(h, key)
    \/ \E h \in Handles, key \in Keys, value \in Values : Set(h, key, value)
    \/ \E h \in Handles, key \in Keys : Del(h, key)
    \/ \E h \in Handles, range \in Ranges : Scan(h, range[1], range[2])
    \/ \E h \in Handles : Drop(h)

Spec == Init /\ [][Next]_vars

\* The sessions made of the operations that can change the log file or the
\* index: open (with its compaction), set, del, and clone and drop.
NextUpdates ==
    \/ Open(DbPath)
    \/ \E h \in Handles : Clone(h)
    \/ \E h \in Handles, key \in Keys, value \in Values : Set(h, key, value)
    \/ \E h \in Handles, key \in Keys : Del(h, key)
    \/ \E h \in Handles : Drop(h)

SpecUpdates == Init /\ [][NextUpdates]_vars

---------------------------------------------------------------------------
(* The sessions whose keys and values have the lengths around the two      *)
(* limits of set: one byte, exactly the limit, one byte more.              *)

FullKey == [i \in 1..MaxKeyLen |-> 1] \o << >>

FullValue == [i \in 1..MaxValueLen |-> 0] \o << >>

LimitKeys == {<<1>>, FullKey, BigKey}

LimitValues == {<<7>>, <<8, 9>>, FullValue, BigValue}

\* The log of these sessions has room for one record of a key of the
\* greatest length behind the records of the other sessions. A value of the
\* greatest length is handed to set in every state and kept in none.
MaxLimitLogBytes == MaxLogBytes + 8 + MaxKeyLen + 2

\* Engine::set on a log that may grow up to MaxLimitLogBytes.
SetAtLimit(h, key, value) ==
    /\ h \in DOMAIN engines
    /\ OutsideEngine
    /\ poisoned = {}
    /\ LET r == set(World, engines[h], key, value)
           n == Len(LogBytes(r.w, engines[h]))
       IN  /\ n <= MaxLimitLogBytes
           /\ Become(r.w)
           /\ last' = Call("set", key, r.res, << >>,
                           n - Len(LogBytes(World, engines[h])))
           /\ hist' = IF r.res # "Ok" THEN hist ELSE Insert(hist, key, value)
    /\ atClose' = NeverClosed
    /\ UNCHANGED <<engines, poisoned>>

NextLimits ==
    \/ Open(DbPath)
    \/ \E h \in Handles, key \in LimitKeys, value \in LimitValues :
          SetAtLimit(h, key, value)
    \/ \E h \in Handles, key \in LimitKeys : Get(h, key)

SpecLimits == Init /\ [][NextLimits]_vars

---------------------------------------------------------------------------
(* A process killed inside write_entry: the file holds the records of the  *)
(* completed appends and then the first bytes of the record whose          *)
(* write_all was cut short. The next process opens that file.              *)

TornKeys == {<<1>>, <<1, 2>>}

TornValues == {<< >>, <<7>>}

TornRecords == {write_entry(<< >>, k, v).bytes : k \in TornKeys, v \in TornValues}

GoodLogs ==
    {<< >>} \cup TornRecords \cup {a \o b : a \in TornRecords, b \in TornRecords}

\* The proper non-empty prefixes of a record: cut inside the header, the
\* key or the value.
Tails == UNION {{SubSeq(r, 1, n) : n \in 1..(Len(r) - 1)} : r \in TornRecords}

InitTorn ==
    /\ \E good \in GoodLogs, tail \in Tails :
          /\ disk = Insert(EmptyMap, 1, good \o tail)
          /\ hist = build_key_map(good).key_map
          /\ atClose = [closed  |-> FALSE,
                        key_map |-> build_key_map(good).key_map,
                        bytes   |-> good \o tail]
    /\ dir = Insert(EmptyMap, DbPath, 1)
    /\ logs = EmptyMap
    /\ key_maps = EmptyMap
    /\ engines = EmptyMap
    /\ last = NoCall
    /\ poisoned = {}
    /\ NoWriter
    /\ NoThreads
    /\ opening = NotOpening(DbPath)

NextTorn == Open(DbPath)

SpecTorn == InitTorn /\ [][NextTorn]_vars

---------------------------------------------------------------------------
(* The file write of write_entry fails. write_all(..).unwrap() panics      *)
(* while set or del holds the write guard of key_map and the guard of log, *)
(* after any number of the record's bytes short of all has reached the     *)
(* file; both locks are poisoned, index.insert / remove is not reached.    *)

\* How many bytes of the record reach the file before the error.
FailCuts == {0, 5}

write_entry_failing(bytes, key, value, n) ==
    LET whole == write_entry(bytes, key, value).bytes
    IN  [panic |-> TRUE, bytes |-> SubSeq(whole, 1, Len(bytes) + n)]

\* set or del (op) on a state from which it reaches write_entry.
WriteFails(h, op, key, value, n) ==
    /\ h \in DOMAIN engines
    /\ OutsideEngine
    /\ poisoned = {}
    /\ LET e    == engines[h]
           r    == IF op = "set" THEN set(World, e, key, value)
                   ELSE del(World, e, key)
           file == logs[e.log].file
           wr   == write_entry_failing(disk[file], key, value, n)
       IN  /\ r.res = "Ok"
           /\ LogBytes(r.w, e) # LogBytes(World, e)
           /\ Len(LogBytes(r.w, e)) <= MaxLogBytes
           /\ disk' = [disk EXCEPT ![file] = wr.bytes]
    /\ poisoned' = {"key_map", "log"}
    /\ last' = Call(op, key, "panic", << >>, n)
    /\ atClose' = NeverClosed
    /\ UNCHANGED <<dir, logs, key_maps, engines, hist>>

\* get, set, del or scan while key_map is poisoned: set still validates
\* first, then read().unwrap() / write().unwrap() panics.
PoisonedCall(h, op, key, value) ==
    /\ h \in DOMAIN engines
    /\ OutsideEngine
    /\ "key_map" \in poisoned
    /\ last' = Call(op, key,
                    IF op = "set" /\ (Len(key) > MaxKeyLen
                                       \/ Len(value) > MaxValueLen)
                    THEN "InvalidInput" ELSE "panic",
                    << >>, 0)
    /\ atClose' = NeverClosed
    /\ UNCHANGED <<dir, disk, logs, key_maps, engines, hist, poisoned>>

\* Drop while log is poisoned: flush panics at lock().unwrap(); the Arc
\* fields are dropped all the same.
PoisonedDrop(h) ==
    /\ h \in DOMAIN engines
    /\ OutsideEngine
    /\ "log" \in poisoned
    /\ Become(collect(World, Others(h)))
    /\ engines' = Remove(engines, h)
    /\ last' = Call("drop", << >>, "panic", << >>, 0)
    /\ atClose' = NeverClosed
    /\ UNCHANGED <<hist, poisoned>>

\* The keys of the calls made on a poisoned engine.
ProbeKeys == {<<1>>, BigKey}

NextIo ==
    \/ Next
    \/ \E h \in Handles, key \in Keys, value \in Values, n \in FailCuts :
          WriteFails(h, "set", key, value, n)
    \/ \E h \in Handles, key \in Keys, n \in FailCuts :
          WriteFails(h, "del", key, << >>, n)
    \/ \E h \in Handles, op \in {"get", "set", "del", "scan"}, key \in ProbeKeys :
          PoisonedCall(h, op, key, <<7>>)
    \/ \E h \in Handles : PoisonedDrop(h)

SpecIo == Init /\ [][NextIo]_vars

---------------------------------------------------------------------------
(* The writer-thread log of log.rs. Log::new opens the file for append and *)
(* spawns one worker that owns it behind a BufWriter; the producers hold   *)
(* clones of the Sender and only enqueue messages.                         *)

\* The capacity of BufWriter::new.
BufCapacity == 8192

NumProducers == 2
MaxCalls == 3

Producers == 1..NumProducers

LogMessage_Write(data) == [tag |-> "Write", data |-> data]
LogMessage_Flush == [tag |-> "Flush", data |-> << >>]
LogMessage_Shutdown == [tag |-> "Shutdown", data |-> << >>]

\* Log::write_entry of log.rs, up to the call of writer.write(buffer).
Log_write_entry(key, value) ==
    IF Len(key) > MaxKeyLen \/ Len(value) > MaxValueLen
    THEN [panic |-> TRUE, buffer |-> << >>]
    ELSE [panic  |-> FALSE,
          buffer |-> to_be_bytes(Len(key)) \o to_be_bytes(Len(value))
                        \o key \o value]

\* Log::build_key_map of log.rs: the replay of the file at the path.
Log_build_key_map(bytes) == replay(bytes, 0, EmptyMap)

\* Faulty variant of send: the message goes to the head of the queue.
send_to_front(c, msg) ==
    IF c.open THEN [c EXCEPT !.queue = <<msg>> \o @] ELSE c

\* Sender::send: the message is queued while the receiver exists; the
\* callers drop the error it returns otherwise.
send(c, msg) ==
    IF c.open THEN [c EXCEPT !.queue = Append(@, msg)] ELSE c

\* BufWriter::flush and BufWriter::write_all on the worker's writer.
BufWriter_flush(w) == [w EXCEPT !.file = @ \o w.buf, !.buf = << >>]

BufWriter_write_all(w, data) ==
    LET w1 == IF Len(w.buf) + Len(data) > BufCapacity
              THEN BufWriter_flush(w) ELSE w
    IN  IF Len(data) >= BufCapacity
        THEN [w1 EXCEPT !.file = @ \o data]
        ELSE [w1 EXCEPT !.buf = @ \o data]

\* Faulty variant of worker: on Shutdown the buffered bytes are thrown away.
worker_dropping_buffer(w, msg) ==
    IF msg.tag = "Write" THEN BufWriter_write_all(w, msg.data)
    ELSE IF msg.tag = "Flush" THEN BufWriter_flush(w)
    ELSE [w EXCEPT !.buf = << >>, !.running = FALSE]

\* The body of the worker's loop for one received message. After Shutdown
\* the closure returns and its BufWriter is dropped, which flushes it.
worker(w, msg) ==
    IF msg.tag = "Write" THEN BufWriter_write_all(w, msg.data)
    ELSE IF msg.tag = "Flush" THEN BufWriter_flush(w)
    ELSE [BufWriter_flush(w) EXCEPT !.running = FALSE]

WriterKeys == {<<1>>}

WriterValues == {<< >>, <<7>>}

OldRecord == Log_write_entry(<<2>>, <<8>>).buffer

EngineUnused ==
    /\ dir = EmptyMap
    /\ disk = EmptyMap
    /\ logs = EmptyMap
    /\ key_maps = EmptyMap
    /\ engines = EmptyMap
    /\ last = NoCall
    /\ hist = EmptyMap
    /\ atClose = NeverClosed
    /\ poisoned = {}
    /\ opening = NotOpening(DbPath)

OutsideWriter ==
    UNCHANGED <<dir, disk, logs, key_maps, engines, last, hist, atClose, poisoned,
                threads, locks, sched, opening>>

\* After Log::new(path), on a path without a file or with an earlier log.
InitWriter ==
    /\ EngineUnused
    /\ \E old \in {<< >>, OldRecord} :
          /\ writer = [running |-> TRUE, buf |-> << >>, file |-> old,
                       outcomes |-> << >>]
          /\ producers = [start |-> old, sent |-> << >>, promised |-> 0,
                          calls |-> 0, shut |-> -1]
    /\ chan = [open |-> TRUE, queue |-> << >>]
    /\ NoThreads

\* Log::write_entry(key, value) by producer p.
WriteEntry(p, key, value) ==
    /\ producers.calls < MaxCalls
    /\ OutsideWriter
    /\ LET r == Log_write_entry(key, value)
       IN  /\ ~r.panic
           /\ chan' = send(chan, LogMessage_Write(r.buffer))
           /\ producers' = [producers EXCEPT
                                !.sent = Append(@, [by |-> p, data |-> r.buffer,
                                                    queued |-> chan.open]),
                                !.calls = @ + 1]
    /\ UNCHANGED writer

\* LogWriter::flush by producer p, from its call to its return.
WriterFlush(p) ==
    /\ producers.calls < MaxCalls
    /\ OutsideWriter
    /\ chan' = send(chan, LogMessage_Flush)
    /\ producers' = [producers EXCEPT !.promised = Len(producers.sent),
                                      !.calls = @ + 1]
    /\ UNCHANGED writer

\* LogWriter::shutdown by producer p.
WriterShutdown(p) ==
    /\ producers.calls < MaxCalls
    /\ OutsideWriter
    /\ chan' = send(chan, LogMessage_Shutdown)
    /\ producers' = [producers EXCEPT
                        !.shut = IF @ = -1 THEN Len(producers.sent) ELSE @,
                        !.calls = @ + 1]
    /\ UNCHANGED writer

\* The worker receives the next message. When its loop ends the Receiver
\* is dropped with the messages still queued.
WorkerRecv ==
    /\ writer.running
    /\ chan.queue # << >>
    /\ OutsideWriter
    /\ writer' = [worker(writer, Head(chan.queue)) EXCEPT
                     !.outcomes = Append(@, "ok")]
    /\ chan' = IF writer'.running
               THEN [chan EXCEPT !.queue = Tail(@)]
               ELSE [open |-> FALSE, queue |-> << >>]
    /\ UNCHANGED producers

NextWriter ==
    \/ \E p \in Producers, key \in WriterKeys, value \in WriterValues :
          WriteEntry(p, key, value)
    \/ \E p \in Producers : WriterFlush(p)
    \/ \E p \in Producers : WriterShutdown(p)
    \/ WorkerRecv

SpecWriter == InitWriter /\ [][NextWriter]_vars

---------------------------------------------------------------------------
(* The writer-thread log when the file system fails under the worker: a    *)
(* write(2) inside BufWriter returns an error after some bytes of the call *)
(* have reached the file.                                                  *)

\* How many bytes reach the file before the error.
WriterCuts == {0, 3}

\* A value whose record does not fit the BufWriter: write_all hands it to
\* the file directly.
WideValue == [i \in 1..BufCapacity |-> 9]

WriterIoValues == {<<7>>, WideValue}

\* BufWriter::flush failing after n bytes: the bytes written leave the
\* buffer, the others stay in it.
BufWriter_flush_failing(w, n) ==
    [w EXCEPT !.file = @ \o SubSeq(w.buf, 1, n),
              !.buf = SubSeq(w.buf, n + 1, Len(w.buf))]

\* BufWriter::write_all failing. At stage "flush" the buffer is flushed to
\* make room, the flush fails and the data is not taken; at stage "direct"
\* the data goes past the buffer and its write fails after n bytes.
BufWriter_write_all_failing(w, data, stage, n) ==
    IF stage = "flush" THEN BufWriter_flush_failing(w, n)
    ELSE LET w1 == IF Len(w.buf) + Len(data) > BufCapacity
                   THEN BufWriter_flush(w) ELSE w
         IN  [w1 EXCEPT !.file = @ \o SubSeq(data, 1, n)]

\* Whether the handling of msg reaches a write to the file at that stage,
\* of more than n bytes.
can_fail(w, msg, stage, n) ==
    IF msg.tag = "Write"
    THEN IF stage = "flush"
         THEN Len(w.buf) + Len(msg.data) > BufCapacity /\ n < Len(w.buf)
         ELSE Len(msg.data) >= BufCapacity /\ n < Len(msg.data)
    ELSE stage = "flush" /\ n < Len(w.buf)

\* Faulty variant of worker_failing: the worker's loop ends on an error.
worker_failing_stops(w, msg, stage, n) ==
    IF msg.tag = "Write"
    THEN [BufWriter_write_all_failing(w, msg.data, stage, n) EXCEPT
              !.running = FALSE]
    ELSE IF msg.tag = "Flush"
    THEN [BufWriter_flush_failing(w, n) EXCEPT !.running = FALSE]
    ELSE [BufWriter_flush_failing(w, n) EXCEPT !.buf = << >>,
                                               !.running = FALSE]

\* The body of the worker's loop for one received message whose write to
\* the file fails: the error of Write and of Flush is printed and the loop
\* goes on; the error of the flush in the drop of the BufWriter, after
\* Shutdown, is ignored and the buffer is freed.
worker_failing(w, msg, stage, n) ==
    IF msg.tag = "Write" THEN BufWriter_write_all_failing(w, msg.data, stage, n)
    ELSE IF msg.tag = "Flush" THEN BufWriter_flush_failing(w, n)
    ELSE [BufWriter_flush_failing(w, n) EXCEPT !.buf = << >>,
                                               !.running = FALSE]

\* What the worker prints to stderr for a failed message.
eprintln(msg) ==
    IF msg.tag = "Write" THEN "Failed to write log"
    ELSE IF msg.tag = "Flush" THEN "Failed to flush log"
    ELSE "ok"

\* The worker receives the next message and the file system fails it.
WorkerRecvFails(stage, n) ==
    /\ writer.running
    /\ chan.queue # << >>
    /\ can_fail(writer, Head(chan.queue), stage, n)
    /\ OutsideWriter
    /\ writer' = [worker_failing(writer, Head(chan.queue), stage, n) EXCEPT
                     !.outcomes = Append(@, eprintln(Head(chan.queue)))]
    /\ chan' = IF writer'.running
               THEN [chan EXCEPT !.queue = Tail(@)]
               ELSE [open |-> FALSE, queue |-> << >>]
    /\ UNCHANGED producers

\* The producer that makes the calls: what the worker meets does not depend
\* on who sent the message.
IoProducers == {1}

NextWriterIo ==
    \/ \E p \in IoProducers, key \in WriterKeys, value \in WriterIoValues :
          WriteEntry(p, key, value)
    \/ \E p \in IoProducers : WriterFlush(p)
    \/ \E p \in IoProducers : WriterShutdown(p)
    \/ WorkerRecv
    \/ \E stage \in {"flush", "direct"}, n \in WriterCuts :
          WorkerRecvFails(stage, n)

SpecWriterIo == InitWriter /\ [][NextWriterIo]_vars

---------------------------------------------------------------------------
(* Threads that call get, set, del and scan in parallel, each through its  *)
(* own clone of one engine. A call is a sequence of steps: one step per    *)
(* lock it takes, per file write, per entry the range iterator of scan     *)
(* visits, and one for the index update with the return.                   *)

NumThreads == 2
MaxConcCalls == 3

Threads == 1..NumThreads

ConcKeys == {<<1>>, <<2>>}

ConcValues == {<< >>, <<8>>}

ConcRanges == {<< << >>, <<9>> >>}

\* In the workload "own" thread t reads and writes the key <<t>> only.
OwnKey(t) == <<t>>

\* The log of a session that set both keys.
ConcLog ==
    write_entry(write_entry(<< >>, <<1>>, <<7>>).bytes, <<2>>, <<7>>).bytes

IdleThread ==
    [pc |-> "idle", op |-> "none", key |-> << >>, value |-> << >>,
     hi |-> << >>, res |-> "Ok", out |-> << >>, cursor |-> None,
     seen |-> {}, mine |-> None]

\* Before Engine::new: an empty directory or one that holds ConcLog.
InitThreads(workload) ==
    /\ \E old \in BOOLEAN :
          /\ dir = IF old THEN Insert(EmptyMap, DbPath, 1) ELSE EmptyMap
          /\ disk = IF old THEN Insert(EmptyMap, 1, ConcLog) ELSE EmptyMap
    /\ logs = EmptyMap
    /\ key_maps = EmptyMap
    /\ engines = EmptyMap
    /\ hist = EmptyMap
    /\ last = NoCall
    /\ atClose = NeverClosed
    /\ poisoned = {}
    /\ NoWriter
    /\ opening = NotOpening(DbPath)
    /\ threads = << >>
    /\ locks = [writer |-> 0, readers |-> {}, mutex |-> 0]
    /\ sched = [workload |-> workload, calls |-> 0, commits |-> << >>]

\* Every thread is started with its clone of the engine r.e.
Started(r) ==
    /\ r.res = "Ok"
    /\ Become(r.w)
    /\ engines' = [t \in Threads |-> r.e]
    /\ hist' = Index(r.w, r.e)
    /\ threads' = [t \in Threads |->
                      [IdleThread EXCEPT
                          !.mine = Lookup(Index(r.w, r.e), OwnKey(t))]]

\* Engine::new(path) returns and the threads are started.
Spawn(path) ==
    /\ DOMAIN engines = {}
    /\ Started(Engine_new(World, path))
    /\ UNCHANGED <<last, atClose, poisoned, chan, writer, producers, locks, sched,
                    opening>>

OutsideThreads ==
    UNCHANGED <<dir, logs, engines, last, hist, atClose, poisoned,
                chan, writer, producers, opening>>

\* RwLock::read and RwLock::write return when the lock can be shared,
\* resp. is free.
can_read(l, t) == l.writer = 0

\* Faulty variant of can_write: a writer does not wait for the readers.
can_write_ignoring_readers(l, t) == l.writer = 0

\* Faulty variant of can_write: a writer does not wait for another writer.
can_write_ignoring_writer(l, t) == l.readers = {}

can_write(l, t) == l.writer = 0 /\ l.readers = {}

\* Thread t starts the call op(key, value) resp. scan(key..hi).
Begin(t, op, key, value, hi, pc, res) ==
    /\ t \in DOMAIN threads
    /\ threads[t].pc = "idle"
    /\ sched.calls < MaxConcCalls
    /\ (sched.workload = "own" /\ op # "scan") => key = OwnKey(t)
    /\ threads' = [threads EXCEPT ![t] =
                      [@ EXCEPT !.pc = pc, !.op = op, !.key = key,
                                !.value = value, !.hi = hi, !.res = res,
                                !.out = << >>, !.cursor = None,
                                !.seen = IF op = "scan"
                                         THEN {Index(World, engines[t])}
                                         ELSE {}]]
    /\ sched' = [sched EXCEPT !.calls = @ + 1]
    /\ UNCHANGED <<disk, key_maps, locks>>
    /\ OutsideThreads

CallGet(t, key) == Begin(t, "get", key, << >>, << >>, "get_lock", "Ok")

\* Engine::set up to its write(): the two length checks, then the empty
\* value goes to del.
CallSet(t, key, value) ==
    IF Len(key) > MaxKeyLen \/ Len(value) > MaxValueLen
    THEN Begin(t, "set", key, << >>, << >>, "idle", "InvalidInput")
    ELSE Begin(t, "set", key, value, << >>,
               IF value = << >> THEN "del_lock" ELSE "set_lock", "Ok")

CallDel(t, key) == Begin(t, "del", key, << >>, << >>, "del_lock", "Ok")

CallScan(t, lo, hi) == Begin(t, "scan", lo, << >>, hi, "scan_lock", "Ok")

\* key_map.read().unwrap() of get and scan.
AcquireRead(t) ==
    /\ t \in DOMAIN threads
    /\ threads[t].pc \in {"get_lock", "scan_lock"}
    /\ can_read(locks, t)
    /\ locks' = [locks EXCEPT !.readers = @ \cup {t}]
    /\ threads' = [threads EXCEPT ![t].pc =
                      IF @ = "get_lock" THEN "get_read" ELSE "scan_iter"]
    /\ UNCHANGED <<disk, key_maps, sched>>
    /\ OutsideThreads

\* get: the lookup, the drop of the read guard, the return.
GetReturn(t) ==
    /\ t \in DOMAIN threads
    /\ threads[t].pc = "get_read"
    /\ threads' = [threads EXCEPT ![t] =
                      [@ EXCEPT !.pc = "idle",
                                !.out = get(World, engines[t], threads[t].key)]]
    /\ locks' = [locks EXCEPT !.readers = @ \ {t}]
    /\ UNCHANGED <<disk, key_maps, sched>>
    /\ OutsideThreads

\* The thread's own key, as its own completed writes have left it (kept in
\* the workload "own").
Mine(t, key, value) ==
    IF sched.workload # "own" \/ key # OwnKey(t) THEN threads[t].mine
    ELSE IF value = << >> THEN None ELSE Some(value)

\* Faulty variant of AcquireWrite: when the lock is taken the call gives up
\* and returns Ok.
AcquireWrite_try(t) ==
    /\ t \in DOMAIN threads
    /\ threads[t].pc \in {"set_lock", "del_lock"}
    /\ IF can_write(locks, t)
       THEN /\ locks' = [locks EXCEPT !.writer = t]
            /\ threads' = [threads EXCEPT ![t].pc =
                              IF @ = "set_lock" THEN "set_check" ELSE "del_check"]
       ELSE /\ UNCHANGED locks
            /\ threads' = [threads EXCEPT ![t] =
                              [@ EXCEPT !.pc = "idle",
                                        !.mine = Mine(t, threads[t].key,
                                                      IF threads[t].pc = "set_lock"
                                                      THEN threads[t].value
                                                      ELSE << >>)]]
    /\ UNCHANGED <<disk, key_maps, sched>>
    /\ OutsideThreads

\* key_map.write().unwrap() of set and del.
AcquireWrite(t) ==
    /\ t \in DOMAIN threads
    /\ threads[t].pc \in {"set_lock", "del_lock"}
    /\ can_write(locks, t)
    /\ locks' = [locks EXCEPT !.writer = t]
    /\ threads' = [threads EXCEPT ![t].pc =
                      IF @ = "set_lock" THEN "set_check" ELSE "del_check"]
    /\ UNCHANGED <<disk, key_maps, sched>>
    /\ OutsideThreads

\* Faulty variant of Check: a write that goes on to the log has updated the
\* index already.
Check_index_first(t) ==
    /\ t \in DOMAIN threads
    /\ threads[t].pc \in {"set_check", "del_check"}
    /\ LET th      == threads[t]
           id      == engines[t].key_map
           key_map == key_maps[id]
           noop    == IF th.pc = "set_check"
                      THEN th.key \in DOMAIN key_map /\ key_map[th.key] = th.value
                      ELSE th.key \notin DOMAIN key_map
       IN  IF noop
           THEN /\ threads' = [threads EXCEPT ![t] =
                                  [@ EXCEPT !.pc = "idle",
                                            !.mine = Mine(t, th.key, th.value)]]
                /\ locks' = [locks EXCEPT !.writer = 0]
                /\ UNCHANGED key_maps
           ELSE /\ threads' = [threads EXCEPT ![t].pc =
                                  IF @ = "set_check" THEN "set_log" ELSE "del_log"]
                /\ key_maps' = [key_maps EXCEPT ![id] =
                                   IF th.pc = "set_check"
                                   THEN Insert(key_map, th.key, th.value)
                                   ELSE Remove(key_map, th.key)]
                /\ UNCHANGED locks
    /\ UNCHANGED <<disk, sched>>
    /\ OutsideThreads

\* set: the value is the stored one; del: the key is absent. Both return
\* Ok at once and drop the write guard; otherwise they go on to the log.
Check(t) ==
    /\ t \in DOMAIN threads
    /\ threads[t].pc \in {"set_check", "del_check"}
    /\ LET th      == threads[t]
           key_map == Index(World, engines[t])
           noop    == IF th.pc = "set_check"
                      THEN th.key \in DOMAIN key_map /\ key_map[th.key] = th.value
                      ELSE th.key \notin DOMAIN key_map
       IN  IF noop
           THEN /\ threads' = [threads EXCEPT ![t] =
                                  [@ EXCEPT !.pc = "idle",
                                            !.mine = Mine(t, th.key, th.value)]]
                /\ locks' = [locks EXCEPT !.writer = 0]
           ELSE /\ threads' = [threads EXCEPT ![t].pc =
                                  IF @ = "set_check" THEN "set_log" ELSE "del_log"]
                /\ UNCHANGED locks
    /\ UNCHANGED <<disk, key_maps, sched>>
    /\ OutsideThreads

\* self.log.lock().unwrap()
LogLock(t) ==
    /\ t \in DOMAIN threads
    /\ threads[t].pc \in {"set_log", "del_log"}
    /\ locks.mutex = 0
    /\ locks' = [locks EXCEPT !.mutex = t]
    /\ threads' = [threads EXCEPT ![t].pc =
                      IF @ = "set_log" THEN "set_write" ELSE "del_write"]
    /\ UNCHANGED <<disk, key_maps, sched>>
    /\ OutsideThreads

\* Faulty variant of LogWrite: the guard of log is kept after the write.
LogWrite_keeping_guard(t) ==
    /\ t \in DOMAIN threads
    /\ threads[t].pc \in {"set_write", "del_write"}
    /\ LET th   == threads[t]
           file == logs[engines[t].log].file
           wr   == write_entry(disk[file], th.key,
                               IF th.pc = "set_write" THEN th.value ELSE << >>)
       IN  /\ ~wr.panic
           /\ disk' = [disk EXCEPT ![file] = wr.bytes]
    /\ threads' = [threads EXCEPT ![t].pc =
                      IF @ = "set_write" THEN "set_insert" ELSE "del_remove"]
    /\ UNCHANGED <<key_maps, sched, locks>>
    /\ OutsideThreads

\* write_entry(key, value) resp. write_entry(key, &[]), then the drop of
\* the guard of log at the end of the statement.
LogWrite(t) ==
    /\ t \in DOMAIN threads
    /\ threads[t].pc \in {"set_write", "del_write"}
    /\ LET th   == threads[t]
           file == logs[engines[t].log].file
           wr   == write_entry(disk[file], th.key,
                               IF th.pc = "set_write" THEN th.value ELSE << >>)
       IN  /\ ~wr.panic
           /\ disk' = [disk EXCEPT ![file] = wr.bytes]
    /\ locks' = [locks EXCEPT !.mutex = 0]
    /\ threads' = [threads EXCEPT ![t].pc =
                      IF @ = "set_write" THEN "set_insert" ELSE "del_remove"]
    /\ UNCHANGED <<key_maps, sched>>
    /\ OutsideThreads

\* key_map.insert resp. key_map.remove, the return of Ok and the drop of
\* the write guard. The scans in flight get to see the new index.
Commit(t) ==
    /\ t \in DOMAIN threads
    /\ threads[t].pc \in {"set_insert", "del_remove"}
    /\ LET th      == threads[t]
           id      == engines[t].key_map
           key_map == IF th.pc = "set_insert"
                      THEN Insert(key_maps[id], th.key, th.value)
                      ELSE Remove(key_maps[id], th.key)
       IN  /\ key_maps' = [key_maps EXCEPT ![id] = key_map]
           /\ threads' = [u \in Threads |->
                 IF u = t
                 THEN [th EXCEPT !.pc = "idle",
                                 !.mine = Mine(t, th.key,
                                               IF th.pc = "set_insert"
                                               THEN th.value ELSE << >>)]
                 ELSE IF threads[u].pc \in {"scan_lock", "scan_iter"}
                      THEN [threads[u] EXCEPT !.seen = @ \cup {key_map}]
                      ELSE threads[u]]
           /\ sched' = [sched EXCEPT !.commits =
                           Append(@, [key   |-> th.key,
                                      value |-> IF th.pc = "set_insert"
                                                THEN th.value ELSE << >>])]
    /\ locks' = [locks EXCEPT !.writer = 0]
    /\ UNCHANGED disk
    /\ OutsideThreads

\* The entries of the range that the iterator of key_map.range(key..hi)
\* has not passed yet.
Ahead(t) ==
    LET th      == threads[t]
        key_map == Index(World, engines[t])
    IN  {k \in DOMAIN key_map :
            /\ ~LexLess(k, th.key)
            /\ LexLess(k, th.hi)
            /\ th.cursor # None => LexLess(th.cursor[1], k)}

\* scan: collect() takes the next entry of the range.
ScanNext(t) ==
    /\ t \in DOMAIN threads
    /\ threads[t].pc = "scan_iter"
    /\ ~LexLess(threads[t].hi, threads[t].key)
    /\ Ahead(t) # {}
    /\ LET k == SortedKeys(Ahead(t))[1]
       IN  threads' = [threads EXCEPT ![t] =
                          [@ EXCEPT !.out = Append(@, <<k, Index(World, engines[t])[k]>>),
                                    !.cursor = Some(k)]]
    /\ UNCHANGED <<disk, key_maps, locks, sched>>
    /\ OutsideThreads

\* scan: the range is exhausted (or range() has panicked on a start after
\* the end): the read guard is dropped and the collected pairs returned.
ScanReturn(t) ==
    /\ t \in DOMAIN threads
    /\ threads[t].pc = "scan_iter"
    /\ LexLess(threads[t].hi, threads[t].key) \/ Ahead(t) = {}
    /\ threads' = [threads EXCEPT ![t] =
                      [@ EXCEPT !.pc = "idle",
                                !.res = IF LexLess(threads[t].hi, threads[t].key)
                                        THEN "panic" ELSE "Ok"]]
    /\ locks' = [locks EXCEPT !.readers = @ \ {t}]
    /\ UNCHANGED <<disk, key_maps, sched>>
    /\ OutsideThreads

NextThreads ==
    \/ Spawn(DbPath)
    \/ \E t \in Threads, key \in ConcKeys : CallGet(t, key)
    \/ \E t \in Threads, key \in ConcKeys, value \in ConcValues :
          CallSet(t, key, value)
    \/ \E t \in Threads, key \in ConcKeys : CallDel(t, key)
    \/ \E t \in Threads, range \in ConcRanges : CallScan(t, range[1], range[2])
    \/ \E t \in Threads : AcquireRead(t)
    \/ \E t \in Threads : GetReturn(t)
    \/ \E t \in Threads : AcquireWrite(t)
    \/ \E t \in Threads : Check(t)
    \/ \E t \in Threads : LogLock(t)
    \/ \E t \in Threads : LogWrite(t)
    \/ \E t \in Threads : Commit(t)
    \/ \E t \in Threads : ScanNext(t)
    \/ \E t \in Threads : ScanReturn(t)

\* Any thread calls on any key.
InitAnyKey == InitThreads("any")

SpecThreads == InitAnyKey /\ [][NextThreads]_vars

\* The threads call get, set and del on any key, and no scan.
NextNoScan ==
    \/ Spawn(DbPath)
    \/ \E t \in Threads, key \in ConcKeys : CallGet(t, key)
    \/ \E t \in Threads, key \in ConcKeys, value \in ConcValues :
          CallSet(t, key, value)
    \/ \E t \in Threads, key \in ConcKeys : CallDel(t, key)
    \/ \E t \in Threads : AcquireRead(t)
    \/ \E t \in Threads : GetReturn(t)
    \/ \E t \in Threads : AcquireWrite(t)
    \/ \E t \in Threads : Check(t)
    \/ \E t \in Threads : LogLock(t)
    \/ \E t \in Threads : LogWrite(t)
    \/ \E t \in Threads : Commit(t)

SpecNoScan == InitAnyKey /\ [][NextNoScan]_vars

\* The steps of thread t inside a call it has started.
ThreadStep(t) ==
    \/ AcquireRead(t)
    \/ GetReturn(t)
    \/ AcquireWrite(t)
    \/ Check(t)
    \/ LogLock(t)
    \/ LogWrite(t)
    \/ Commit(t)
    \/ ScanNext(t)
    \/ ScanReturn(t)

\* Engine::new finds the log of an earlier session.
InitOldLog == InitThreads("any") /\ dir # EmptyMap

\* The ranges of the scans: everything, and a start after the end, on
\* which range() panics and the unwinding drops the read guard.
FairRanges == ConcRanges \cup {<< <<2>>, <<1>> >>}

\* The threads call get, set, del and scan, all on the same key.
NextOneKey ==
    \/ Spawn(DbPath)
    \/ \E t \in Threads : CallGet(t, <<1>>)
    \/ \E t \in Threads, value \in ConcValues : CallSet(t, <<1>>, value)
    \/ \E t \in Threads : CallDel(t, <<1>>)
    \/ \E t \in Threads, range \in FairRanges : CallScan(t, range[1], range[2])
    \/ \E t \in Threads : ThreadStep(t)

\* The threads are scheduled: as long as some thread can take its next
\* step, because the lock it asks for is free or it waits for none, a thread
\* takes a step.
SpecThreadsFair ==
    /\ InitOldLog
    /\ [][NextOneKey]_vars
    /\ WF_vars(\E t \in Threads : ThreadStep(t))

\* Every thread gets, sets and deletes its own key only.
InitOwnKeys == InitThreads("own")

SpecOwnKeys == InitOwnKeys /\ [][NextThreads]_vars

---------------------------------------------------------------------------
(* Engine::new step by step: one step per file-system call it makes        *)
(* (Log::new, the replay, the Log::new of the sibling file, set_len, one   *)
(* write_entry per copied entry, rename) and one for the swap of the Arcs  *)
(* with the return. The process can be killed between any two steps, and   *)
(* the rename can fail. No handle exists before Engine::new returns.       *)

\* The paths a caller opens: with an extension, without one, and with the
\* extension compaction gives its sibling file.
Paths == {DbPath, [stem |-> "t", ext |-> ""], [stem |-> "t", ext |-> "new"]}

CompactKeys == {<<1>>, <<2>>}

CompactValues == {<< >>, <<7>>}

OutsideCompact == UNCHANGED <<chan, writer, producers, threads, locks, sched>>

\* Before the first Engine::new(path): an empty directory, or the files of
\* a session killed inside its compaction (OldLog at the path, Leftover in
\* the sibling file).
InitCompact ==
    /\ \E path \in Paths, killed \in BOOLEAN :
          /\ dir = IF killed
                   THEN Insert(Insert(EmptyMap, set_extension(path, "new"), 2),
                               path, 1)
                   ELSE EmptyMap
          /\ disk = [i \in {dir[p] : p \in DOMAIN dir} |->
                        IF i = 1 THEN OldLog ELSE Leftover]
          /\ hist = IF killed THEN OldIndex ELSE EmptyMap
          /\ opening = NotOpening(path)
    /\ logs = EmptyMap
    /\ key_maps = EmptyMap
    /\ engines = EmptyMap
    /\ last = NoCall
    /\ atClose = NeverClosed
    /\ poisoned = {}
    /\ NoWriter
    /\ NoThreads

\* The process ends inside Engine::new (killed, or unwinding from a panic):
\* its open files and its objects are gone, the named files stay.
Died(end) ==
    /\ Become(collect(World, {}))
    /\ opening' = [NotOpening(opening.path) EXCEPT
                      !.end = end, !.before = opening.before]
    /\ last' = Call("open", << >>, "panic", << >>, 0)
    /\ UNCHANGED <<engines, hist, atClose, poisoned>>

\* Engine::new: Log::new(path)
NewLog ==
    /\ DOMAIN engines = {}
    /\ opening.pc = "idle"
    /\ OutsideCompact
    /\ LET o  == Log_new(World, opening.path)
           id == FreshId(DOMAIN o.w.logs)
       IN  /\ Become([o.w EXCEPT !.logs = Insert(o.w.logs, id, o.log)])
           /\ opening' = [NotOpening(opening.path) EXCEPT
                             !.pc = "build_key_map",
                             !.before = o.w.disk[o.log.file],
                             !.s = [log |-> id, key_map |-> 0]]
    /\ UNCHANGED <<engines, last, hist, atClose, poisoned>>

\* Faulty variant of BuildKeyMap: the Engine value s is handed to the
\* callers before compact has run.
BuildKeyMap_returning_early ==
    /\ opening.pc = "build_key_map"
    /\ OutsideCompact
    /\ LET built == build_key_map(disk[logs[opening.s.log].file])
           id    == FreshId(DOMAIN key_maps)
       IN  IF built.panic
           THEN Died("panicked")
           ELSE /\ key_maps' = Insert(key_maps, id, built.key_map)
                /\ opening' = [opening EXCEPT !.pc = "construct_log",
                                              !.s.key_map = id]
                /\ engines' = Insert(EmptyMap, 1,
                                     [opening.s EXCEPT !.key_map = id])
                /\ UNCHANGED <<dir, disk, logs, last, hist, atClose, poisoned>>

\* Engine::new: log.build_key_map(), and the Engine value s
BuildKeyMap ==
    /\ opening.pc = "build_key_map"
    /\ OutsideCompact
    /\ LET built == build_key_map(disk[logs[opening.s.log].file])
           id    == FreshId(DOMAIN key_maps)
       IN  IF built.panic
           THEN Died("panicked")
           ELSE /\ key_maps' = Insert(key_maps, id, built.key_map)
                /\ opening' = [opening EXCEPT !.pc = "construct_log",
                                              !.s.key_map = id]
                /\ UNCHANGED <<dir, disk, logs, engines, last, hist, atClose,
                               poisoned>>

\* compact: the sibling path; construct_log: Log::new(path)
TmpLog ==
    /\ opening.pc = "construct_log"
    /\ OutsideCompact
    /\ LET tmp_path == set_extension(logs[opening.s.log].path, "new")
           o        == Log_new(World, tmp_path)
       IN  /\ Become(o.w)
           /\ opening' = [opening EXCEPT !.pc = "set_len", !.new_log = o.log]
    /\ UNCHANGED <<engines, last, hist, atClose, poisoned>>

\* construct_log: new_log.file.set_len(0), and the iterator over key_map
SetLen ==
    /\ opening.pc = "set_len"
    /\ OutsideCompact
    /\ disk' = [disk EXCEPT ![opening.new_log.file] = set_len(@, 0)]
    /\ opening' = [opening EXCEPT
                      !.pc = "copy",
                      !.todo = SortedKeys(DOMAIN key_maps[opening.s.key_map])]
    /\ UNCHANGED <<dir, logs, key_maps, engines, last, hist, atClose, poisoned>>

\* construct_log: one turn of the copy loop
CopyEntry ==
    /\ opening.pc = "copy"
    /\ opening.todo # << >>
    /\ OutsideCompact
    /\ LET key   == Head(opening.todo)
           value == key_maps[opening.s.key_map][key]
           wr    == write_entry(disk[opening.new_log.file], key, value)
       IN  IF wr.panic
           THEN Died("panicked")
           ELSE /\ disk' = [disk EXCEPT ![opening.new_log.file] = wr.bytes]
                /\ opening' = [opening EXCEPT
                                  !.todo = Tail(@),
                                  !.new_key_map = Insert(@, key, value)]
                /\ UNCHANGED <<dir, logs, key_maps, engines, last, hist,
                               atClose, poisoned>>

\* compact: std::fs::rename(&new_log.path, &path) returns Ok
Rename ==
    /\ opening.pc = "copy"
    /\ opening.todo = << >>
    /\ OutsideCompact
    /\ dir' = rename(dir, opening.new_log.path, logs[opening.s.log].path)
    /\ opening' = [opening EXCEPT !.pc = "swap"]
    /\ UNCHANGED <<disk, logs, key_maps, engines, last, hist, atClose, poisoned>>

\* compact: std::fs::rename returns Err, `?` returns it, and the expect of
\* Engine::new panics.
RenameFails ==
    /\ opening.pc = "copy"
    /\ opening.todo = << >>
    /\ OutsideCompact
    /\ Died("rename failed")

\* compact: the new Arcs replace the old ones; Engine::new returns s.
Swap ==
    /\ opening.pc = "swap"
    /\ OutsideCompact
    /\ LET path    == logs[opening.s.log].path
           new_log == [opening.new_log EXCEPT !.path = path]
           s       == [log     |-> FreshId(DOMAIN logs),
                       key_map |-> FreshId(DOMAIN key_maps)]
           swapped == [dir      |-> dir,
                       disk     |-> disk,
                       logs     |-> Insert(logs, s.log, new_log),
                       key_maps |-> Insert(key_maps, s.key_map,
                                           opening.new_key_map)]
       IN  /\ Become(collect(swapped, {s}))
           /\ engines' = Insert(EmptyMap, 1, s)
    /\ opening' = [NotOpening(opening.path) EXCEPT !.end = "ok"]
    /\ last' = Call("open", << >>, "Ok", << >>, 0)
    /\ UNCHANGED <<hist, atClose, poisoned>>

\* The process is killed inside Engine::new.
Crash ==
    /\ opening.pc # "idle"
    /\ OutsideCompact
    /\ Died("crashed")

NextCompact ==
    \/ NewLog
    \/ BuildKeyMap
    \/ TmpLog
    \/ SetLen
    \/ CopyEntry
    \/ Rename
    \/ RenameFails
    \/ Swap
    \/ Crash
    \/ \E h \in Handles : Clone(h)
    \/ \E h \in Handles, key \in CompactKeys, value \in CompactValues :
          Set(h, key, value)
    \/ \E h \in Handles, key \in CompactKeys : Del(h, key)
    \/ \E h \in Handles : Drop(h)

SpecCompact == InitCompact /\ [][NextCompact]_vars

---------------------------------------------------------------------------
(* Log::build_key_map one turn of its loop at a time, on the well-formed   *)
(* log files: the concatenations of records that write_entry lays out.     *)

MaxRecords == 3

ReplayKeys == {<< >>, <<1>>}

ReplayValues == {<< >>, <<7>>}

\* The files of at most n records.
RECURSIVE WellFormed(_)
WellFormed(n) ==
    IF n = 0 THEN {<< >>}
    ELSE LET shorter == WellFormed(n - 1)
         IN  shorter \cup {write_entry(l, k, v).bytes :
                              l \in shorter, k \in ReplayKeys, v \in ReplayValues}

\* A well-formed log file at the path, before build_key_map is called.
InitReplay ==
    /\ \E bytes \in WellFormed(MaxRecords) :
          /\ dir = Insert(EmptyMap, DbPath, 1)
          /\ disk = Insert(EmptyMap, 1, bytes)
    /\ logs = EmptyMap
    /\ key_maps = EmptyMap
    /\ engines = EmptyMap
    /\ last = NoCall
    /\ hist = EmptyMap
    /\ atClose = NeverClosed
    /\ poisoned = {}
    /\ NoWriter
    /\ NoThreads
    /\ opening = NotOpening(DbPath)

OutsideReplay ==
    UNCHANGED <<dir, disk, logs, key_maps, engines, last, hist, atClose, poisoned,
                chan, writer, producers, threads, locks, sched>>

\* build_key_map up to its loop: an empty key_map, the file length, and
\* the reader at offset 0.
ReplayStart ==
    /\ opening.pc = "idle"
    /\ opening.end = "none"
    /\ OutsideReplay
    /\ opening' = [opening EXCEPT !.pc = "replay", !.pos = 0,
                                  !.before = disk[dir[opening.path]],
                                  !.key_map = EmptyMap]

\* One turn of the loop; a read_exact that fails panics.
ReplayRecord ==
    /\ opening.pc = "replay"
    /\ opening.pos < Len(disk[dir[opening.path]])
    /\ OutsideReplay
    /\ LET r == replay_step(disk[dir[opening.path]], opening.pos,
                            opening.key_map)
       IN  opening' = IF r.panic
                      THEN [opening EXCEPT !.pc = "idle", !.end = "panicked"]
                      ELSE [opening EXCEPT !.pos = r.pos,
                                           !.key_map = r.key_map]

\* The loop condition fails: key_map is returned.
ReplayReturn ==
    /\ opening.pc = "replay"
    /\ ~(opening.pos < Len(disk[dir[opening.path]]))
    /\ OutsideReplay
    /\ opening' = [opening EXCEPT !.pc = "idle", !.end = "replayed"]

NextReplay ==
    \/ ReplayStart
    \/ ReplayRecord
    \/ ReplayReturn

\* build_key_map is straight-line code: once called it goes on running.
SpecReplay == InitReplay /\ [][NextReplay]_vars /\ WF_vars(NextReplay)

---------------------------------------------------------------------------
(* The vocabulary of the properties: the records of a log file as the      *)
(* record format lays them out (8-byte header, key, value), read without   *)
(* the engine's replay.                                                    *)

RECURSIVE Records(_)
Records(bytes) ==
    IF Len(bytes) < 8 THEN << >>
    ELSE LET kl == from_be_bytes(SubSeq(bytes, 1, 4))
             vl == from_be_bytes(SubSeq(bytes, 5, 8))
             n  == 8 + kl + vl
         IN  IF n > Len(bytes) THEN << >>
             ELSE <<[key   |-> SubSeq(bytes, 9, 8 + kl),
                     value |-> SubSeq(bytes, 9 + kl, n)]>>
                  \o Records(SubSeq(bytes, n + 1, Len(bytes)))

RecordLen(r) == 8 + Len(r.key) + Len(r.value)

RECURSIVE RecordsLen(_)
RecordsLen(recs) ==
    IF recs = << >> THEN 0 ELSE RecordLen(Head(recs)) + RecordsLen(Tail(recs))

\* The positions of the records of key k, and the last record of k.
RecordsOf(recs, k) == {i \in 1..Len(recs) : recs[i].key = k}

LastRecord(recs, k) ==
    recs[CHOOSE i \in RecordsOf(recs, k) : \A j \in RecordsOf(recs, k) : j <= i]

RecordKeys(recs) == {recs[i].key : i \in 1..Len(recs)}

Tombstone(k) == [key |-> k, value |-> << >>]

RECURSIVE LiveBytes(_)
LiveBytes(index) ==
    IF DOMAIN index = {} THEN 0
    ELSE LET k == CHOOSE x \in DOMAIN index : TRUE
         IN  8 + Len(k) + Len(index[k]) + LiveBytes(Remove(index, k))

Ready == DOMAIN engines # {}

---------------------------------------------------------------------------
(* C1: in every ready state the log file of every handle replays, from     *)
(* offset 0, to exactly that handle's index: every key of the index has a  *)
(* last record that is no tombstone and carries the index's value, every   *)
(* other key has no record or a tombstone as its last record.              *)
C1_LogReplaysToIndex ==
    \A h \in DOMAIN engines :
        LET bytes == LogBytes(World, engines[h])
            index == Index(World, engines[h])
            recs  == Records(bytes)
        IN  /\ build_key_map(bytes) = [panic |-> FALSE, key_map |-> index]
            /\ RecordsLen(recs) = Len(bytes)
            /\ \A k \in DOMAIN index :
                  /\ RecordsOf(recs, k) # {}
                  /\ LastRecord(recs, k).value # << >>
                  /\ LastRecord(recs, k).value = index[k]
            /\ \A k \in (Keys \cup RecordKeys(recs)) \ DOMAIN index :
                  \/ RecordsOf(recs, k) = {}
                  \/ LastRecord(recs, k).value = << >>

\* A set has just completed on a key whose log holds a stale value and a
\* tombstone before its live record.
C1_Witness ==
    /\ last.op = "set"
    /\ last.appended > 0
    /\ \E h \in DOMAIN engines :
          LET recs == Records(LogBytes(World, engines[h]))
          IN  /\ last.key \in DOMAIN Index(World, engines[h])
              /\ Cardinality(RecordsOf(recs, last.key)) >= 3
              /\ \E i \in RecordsOf(recs, last.key) : recs[i].value = << >>

(* C2: latest write wins.  A get of a key whose last successful write was  *)
(* set(k, v) with v not empty returns Some(v), whatever happened in        *)
(* between on other keys, handles or sessions; and right after a           *)
(* successful set(k, v) every handle's get(k) is Some(v).                  *)
C2_LatestWriteWins ==
    /\ (last.op = "get" /\ last.key \in DOMAIN hist)
          => last.out = Some(hist[last.key])
    /\ \A e \in {engines[h] : h \in DOMAIN engines}, k \in Keys, v \in Values :
          LET r == set(World, e, k, v)
          IN  (r.res = "Ok" /\ v # << >>)
                 => \A g \in DOMAIN engines : get(r.w, engines[g], k) = Some(v)

\* A get returned the second of two different values set for its key.
C2_Witness ==
    /\ last.op = "get"
    /\ last.key \in DOMAIN hist
    /\ last.out = Some(hist[last.key])
    /\ \E h \in DOMAIN engines :
          LET recs == Records(LogBytes(World, engines[h]))
          IN  \E i \in RecordsOf(recs, last.key) :
                 recs[i].value # << >> /\ recs[i].value # hist[last.key]

(* C3: a get of a key whose last successful write was a delete returns     *)
(* None; del of a key of the index returns Ok, appends exactly the         *)
(* tombstone record of the key and removes the key from the index.         *)
C3_DelRemoves ==
    /\ (last.op = "get" /\ last.key \notin DOMAIN hist) => last.out = None
    /\ \A h \in DOMAIN engines :
          \A k \in DOMAIN Index(World, engines[h]) :
             LET r == del(World, engines[h], k)
             IN  /\ r.res = "Ok"
                 /\ Records(LogBytes(r.w, engines[h]))
                       = Append(Records(LogBytes(World, engines[h])), Tombstone(k))
                 /\ Len(LogBytes(r.w, engines[h]))
                       = Len(LogBytes(World, engines[h])) + 8 + Len(k)
                 /\ k \notin DOMAIN Index(r.w, engines[h])
                 /\ \A g \in DOMAIN engines : get(r.w, engines[g], k) = None

\* A get returned None for a key that was set and then deleted.
C3_Witness ==
    /\ last.op = "get"
    /\ last.out = None
    /\ \E h \in DOMAIN engines :
          LET recs == Records(LogBytes(World, engines[h]))
          IN  /\ \E i \in RecordsOf(recs, last.key) : recs[i].value # << >>
              /\ LastRecord(recs, last.key).value = << >>

(* C4: a clean close followed by a reopen of the same path preserves the   *)
(* index: right after the open, get(k) is what it was when the last handle *)
(* was dropped, for every key.                                             *)
C4_ReopenPreservesIndex ==
    (last.op = "open" /\ atClose.closed)
       => /\ last.res = "Ok"
          /\ Ready
          /\ \A h \in DOMAIN engines :
                \A k \in Keys \cup DOMAIN atClose.key_map :
                   get(World, engines[h], k) = Lookup(atClose.key_map, k)

\* A reopen of a log that held a live key and a deleted key with its
\* tombstone and its older set record.
C4_Witness ==
    /\ last.op = "open"
    /\ atClose.closed
    /\ Ready
    /\ DOMAIN atClose.key_map # {}
    /\ LET recs == Records(atClose.bytes)
       IN  \E k \in RecordKeys(recs) :
              /\ k \notin DOMAIN atClose.key_map
              /\ Cardinality(RecordsOf(recs, k)) >= 2

(* C5: set(k, v) where the index already maps k to v returns Ok and        *)
(* changes neither the log file (no record, same length) nor the index.    *)
C5_SameValueNoOp ==
    \A h \in DOMAIN engines :
        \A k \in DOMAIN Index(World, engines[h]) :
            set(World, engines[h], k, Index(World, engines[h])[k])
               = [res |-> "Ok", w |-> World]

\* A set of the value the key already had has just returned.
C5_Witness ==
    /\ last.op = "set"
    /\ last.res = "Ok"
    /\ last.appended = 0
    /\ last.key \in DOMAIN hist
    /\ \E h \in DOMAIN engines :
          Cardinality(RecordsOf(Records(LogBytes(World, engines[h])), last.key)) = 1

(* C6: del(k) of a key that is not in the index returns Ok and changes     *)
(* neither the log file nor the index.                                     *)
C6_DelAbsentNoOp ==
    \A h \in DOMAIN engines :
        \A k \in Keys \ DOMAIN Index(World, engines[h]) :
            del(World, engines[h], k) = [res |-> "Ok", w |-> World]

\* A del of an absent key has just returned.
C6_Witness ==
    /\ last.op = "del"
    /\ last.res = "Ok"
    /\ last.appended = 0
    /\ Ready

(* C7 as claimed: for every key, set(k, <empty>) has the result and the    *)
(* effect of del(k).                                                       *)
C7_Original ==
    \A h \in DOMAIN engines :
        \A k \in Keys :
            set(World, engines[h], k, << >>) = del(World, engines[h], k)

(* C7, amended: for every key of at most 1024 bytes, set(k, <empty>)       *)
(* returns the same result and produces the same index and the same log    *)
(* contents as del(k).  (For a longer key set returns InvalidInput and del *)
(* returns Ok; neither changes anything.)                                  *)
C7_EmptyValueIsDel ==
    \A h \in DOMAIN engines :
        \A k \in Keys :
            IF Len(k) <= MaxKeyLen
            THEN set(World, engines[h], k, << >>) = del(World, engines[h], k)
            ELSE /\ set(World, engines[h], k, << >>)
                       = [res |-> "InvalidInput", w |-> World]
                 /\ del(World, engines[h], k) = [res |-> "Ok", w |-> World]

\* A set with an empty value has just appended the tombstone of its key.
C7_Witness ==
    /\ last.op = "set"
    /\ last.res = "Ok"
    /\ last.appended = 8 + Len(last.key)
    /\ last.key \notin DOMAIN hist
    /\ \E h \in DOMAIN engines :
          LET recs == Records(LogBytes(World, engines[h]))
          IN  recs[Len(recs)] = Tombstone(last.key)

(* C8: set with a key longer than 1024 bytes or a value longer than 262144 *)
(* bytes returns InvalidInput and changes neither the log file nor the     *)
(* index, so every get returns what it returned before.                    *)
C8_OversizeRejected ==
    \A h \in DOMAIN engines, k \in Keys, v \in Values :
        (Len(k) > MaxKeyLen \/ Len(v) > MaxValueLen)
           => LET r == set(World, engines[h], k, v)
              IN  /\ r.res = "InvalidInput"
                  /\ r.w = World
                  /\ \A g \in DOMAIN engines, x \in Keys :
                        get(r.w, engines[g], x) = get(World, engines[g], x)

\* A set of a too long value for a key that has a value has been refused.
C8_Witness ==
    /\ last.op = "set"
    /\ last.res = "InvalidInput"
    /\ last.appended = 0
    /\ last.key \in DOMAIN hist
    /\ \E h \in DOMAIN engines :
          get(World, engines[h], last.key) = Some(hist[last.key])

(* C9 as claimed: set(<empty key>, v) appends no record and does not       *)
(* insert the empty key into the index, for every value v.                 *)
C9_Original ==
    \A h \in DOMAIN engines, v \in Values :
        LET r == set(World, engines[h], << >>, v)
        IN  /\ LogBytes(r.w, engines[h]) = LogBytes(World, engines[h])
            /\ << >> \notin DOMAIN Index(r.w, engines[h])

(* C9, amended: a 0-length key is accepted like any key of at most 1024    *)
(* bytes.  set(<empty key>, v) with 1 <= |v| <= 262144 returns Ok, leaves  *)
(* the index mapping the empty key to v and, unless the index already held *)
(* v for it, appends the record with key_len = 0 and value v; only a value *)
(* longer than 262144 bytes is rejected (InvalidInput, nothing appended or *)
(* inserted).                                                              *)
C9_EmptyKeyAccepted ==
    \A h \in DOMAIN engines, v \in Values :
        LET r     == set(World, engines[h], << >>, v)
            bytes == LogBytes(World, engines[h])
        IN  /\ (1 <= Len(v) /\ Len(v) <= MaxValueLen)
                  => /\ r.res = "Ok"
                     /\ Lookup(Index(r.w, engines[h]), << >>) = Some(v)
                     /\ IF Lookup(Index(World, engines[h]), << >>) = Some(v)
                        THEN LogBytes(r.w, engines[h]) = bytes
                        ELSE /\ Records(LogBytes(r.w, engines[h]))
                                   = Append(Records(bytes),
                                            [key |-> << >>, value |-> v])
                             /\ Len(LogBytes(r.w, engines[h]))
                                   = Len(bytes) + 8 + Len(v)
            /\ Len(v) > MaxValueLen
                  => r = [res |-> "InvalidInput", w |-> World]

\* A set of the empty key has appended its record and inserted the key.
C9_Witness ==
    /\ last.op = "set"
    /\ last.key = << >>
    /\ last.res = "Ok"
    /\ last.appended > 8
    /\ \E h \in DOMAIN engines :
          LET recs == Records(LogBytes(World, engines[h]))
          IN  /\ << >> \in DOMAIN Index(World, engines[h])
              /\ recs[Len(recs)].key = << >>
              /\ recs[Len(recs)].value = Index(World, engines[h])[<< >>]

\* The log of engine value e in world w is compacted: the file at its path
\* is its file, with exactly one record per key of the index, carrying the
\* index's value, no tombstone, and as many bytes as the live pairs need.
Compacted(w, e) ==
    LET log   == w.logs[e.log]
        bytes == LogBytes(w, e)
        index == Index(w, e)
        recs  == Records(bytes)
    IN  /\ log.path \in DOMAIN w.dir
        /\ w.dir[log.path] = log.file
        /\ Len(recs) = Cardinality(DOMAIN index)
        /\ \A k \in DOMAIN index :
              /\ Cardinality(RecordsOf(recs, k)) = 1
              /\ LastRecord(recs, k).value = index[k]
        /\ \A i \in 1..Len(recs) : recs[i].value # << >>
        /\ Len(bytes) = LiveBytes(index)

(* C10: after a compaction the log file holds exactly one record per key   *)
(* of the live index and no tombstone, and its length is the sum of        *)
(* 8 + |k| + |v| over the live keys: right after every open (which runs    *)
(* the compaction, also over the sibling file a killed session left), and  *)
(* for a compaction run from any ready state.                              *)
C10_CompactedLog ==
    /\ (last.op = "open" /\ last.res = "Ok")
          => /\ Ready
             /\ \A h \in DOMAIN engines : Compacted(World, engines[h])
    /\ \A h \in DOMAIN engines :
          LET c == compact(World, engines[h], Others(h))
          IN  c.res = "Ok" /\ Compacted(c.w, c.e)

\* An open has compacted a log that held a stale record and a tombstone,
\* with bytes left in the sibling file.
C10_Witness ==
    /\ last.op = "open"
    /\ last.res = "Ok"
    /\ ~atClose.closed
    /\ hist = OldIndex
    /\ \E h \in DOMAIN engines :
          /\ Index(World, engines[h]) = OldIndex
          /\ Len(LogBytes(World, engines[h])) < Len(OldLog)
          /\ set_extension(DbPath, "new") \notin DOMAIN dir

---------------------------------------------------------------------------
(* C11: compaction leaves the content of the index unchanged. For a        *)
(* compaction run by any handle from any ready state, every handle (the    *)
(* compacting one, through its new index, and every other one) gets for    *)
(* every key the result it got immediately before; and right after an      *)
(* open, whose last step is the compaction, every key reads as the         *)
(* completed writes left it.                                               *)
C11_CompactKeepsIndex ==
    /\ \A h \in DOMAIN engines :
          LET c     == compact(World, engines[h], Others(h))
              after == [g \in DOMAIN engines |->
                           IF g = h THEN c.e ELSE engines[g]]
          IN  /\ c.res = "Ok"
              /\ \A g \in DOMAIN engines, k \in Keys :
                    get(c.w, after[g], k) = get(World, engines[g], k)
              /\ \A g \in DOMAIN engines :
                    Index(c.w, after[g]) = Index(World, engines[h])
    /\ (last.op = "open" /\ last.res = "Ok")
          => \A h \in DOMAIN engines, k \in Keys :
                get(World, engines[h], k) = Lookup(hist, k)

\* An open has compacted a log of a closed session that held more bytes
\* than its two live keys need, and both keys are still there.
C11_Witness ==
    /\ last.op = "open"
    /\ last.res = "Ok"
    /\ atClose.closed
    /\ Cardinality(DOMAIN atClose.key_map) >= 2
    /\ \E h \in DOMAIN engines :
          /\ Len(LogBytes(World, engines[h])) < Len(atClose.bytes)
          /\ Index(World, engines[h]) = atClose.key_map

---------------------------------------------------------------------------
\* Byte-lexicographic order, read off its definition: a proper prefix comes
\* first, otherwise the first differing byte decides.
RECURSIVE BytesBefore(_, _)
BytesBefore(a, b) ==
    IF b = << >> THEN FALSE
    ELSE IF a = << >> THEN TRUE
    ELSE IF Head(a) # Head(b) THEN Head(a) < Head(b)
    ELSE BytesBefore(Tail(a), Tail(b))

ScanBounds == {<< >>, <<1>>, <<1, 1>>, <<1, 2>>, <<2>>}

(* C12: in every ready state and for all bounds lo <= hi, scan(lo..hi)     *)
(* returns Ok with exactly the pairs (k, v) of the index with lo <= k < hi *)
(* (hi excluded), in strictly ascending byte-lexicographic key order, so   *)
(* each pair once, whatever the order in which the keys were written.      *)
C12_ScanRange ==
    \A e \in {engines[h] : h \in DOMAIN engines}, lo \in ScanBounds,
       hi \in ScanBounds :
        ~BytesBefore(hi, lo) =>
            LET r     == scan(World, e, lo, hi)
                index == Index(World, e)
                live  == {k \in DOMAIN index :
                             ~BytesBefore(k, lo) /\ BytesBefore(k, hi)}
            IN  /\ r.res = "Ok"
                /\ {r.out[i] : i \in 1..Len(r.out)}
                      = {<<k, index[k]>> : k \in live}
                /\ \A i \in 1..Len(r.out), j \in 1..Len(r.out) :
                      i < j => BytesBefore(r.out[i][1], r.out[j][1])
                /\ (last.op = "scan" /\ last.key = lo /\ last.hi = hi)
                      => (last.res = "Ok" /\ last.out = r.out)

\* A scan has returned two or more pairs whose records were written in
\* descending key order.
C12_Witness ==
    /\ last.op = "scan"
    /\ last.res = "Ok"
    /\ Len(last.out) >= 2
    /\ \E h \in DOMAIN engines :
          LET recs == Records(LogBytes(World, engines[h]))
          IN  \E i \in 1..Len(recs), j \in 1..Len(recs) :
                 /\ i < j
                 /\ BytesBefore(recs[j].key, recs[i].key)
                 /\ <<recs[i].key, recs[i].value>> = last.out[2]
                 /\ <<recs[j].key, recs[j].value>> = last.out[1]

---------------------------------------------------------------------------
(* C15: at every moment after open all handles refer to the same index and *)
(* the same log, so a set or del completed through one handle is seen by a *)
(* get or scan that starts afterwards through any other handle.            *)
C15_ClonesShare ==
    /\ \A h \in DOMAIN engines, g \in DOMAIN engines :
          /\ engines[h].key_map = engines[g].key_map
          /\ engines[h].log = engines[g].log
          /\ scan(World, engines[g], << >>, <<2>>)
                = scan(World, engines[h], << >>, <<2>>)
    /\ \A h \in DOMAIN engines, k \in Keys :
          /\ \A v \in Values :
                LET s == set(World, engines[h], k, v)
                IN  (s.res = "Ok") =>
                       \A g \in DOMAIN engines :
                          get(s.w, engines[g], k)
                             = IF v = << >> THEN None ELSE Some(v)
          /\ LET d == del(World, engines[h], k)
             IN  /\ d.res = "Ok"
                 /\ \A g \in DOMAIN engines : get(d.w, engines[g], k) = None
    /\ (last.op \in {"set", "del"} /\ last.res = "Ok")
          => \A g \in DOMAIN engines :
                get(World, engines[g], last.key) = Lookup(hist, last.key)

\* Two handles exist and a set that appended a record has completed.
C15_Witness ==
    /\ Cardinality(DOMAIN engines) = 2
    /\ last.op = "set"
    /\ last.res = "Ok"
    /\ last.appended > 8
    /\ \A g \in DOMAIN engines :
          /\ get(World, engines[g], last.key) # None
          /\ get(World, engines[g], last.key) = Lookup(hist, last.key)

---------------------------------------------------------------------------
(* C18: no index holds a key mapped to the empty value, in any reachable   *)
(* state and after a compaction from it, so get never returns Some of the  *)
(* empty value and scan never yields a pair with the empty value.          *)
C18_NoEmptyValue ==
    /\ \A id \in DOMAIN key_maps :
          \A k \in DOMAIN key_maps[id] : key_maps[id][k] # << >>
    /\ \A h \in DOMAIN engines :
          /\ \A k \in Keys : get(World, engines[h], k) # Some(<< >>)
          /\ LET r == scan(World, engines[h], << >>, <<2>>)
             IN  \A i \in 1..Len(r.out) : r.out[i][2] # << >>
          /\ LET c == compact(World, engines[h], Others(h))
             IN  \A k \in DOMAIN Index(c.w, c.e) : Index(c.w, c.e)[k] # << >>
    /\ (last.op = "get") => last.out # Some(<< >>)
    /\ (last.op = "scan") => \A i \in 1..Len(last.out) : last.out[i][2] # << >>

\* A scan has returned a pair while the log holds a tombstone, written by
\* a del or by a set of the empty value.
C18_Witness ==
    /\ last.op = "scan"
    /\ Len(last.out) >= 1
    /\ \E h \in DOMAIN engines :
          LET recs == Records(LogBytes(World, engines[h]))
          IN  \E i \in 1..Len(recs) : recs[i].value = << >>

---------------------------------------------------------------------------
(* C20: dropping a handle returns normally and changes no byte of the log  *)
(* file and no directory entry: no compaction runs. After the last handle  *)
(* is dropped the file at the path holds exactly the bytes it held after   *)
(* the last write, stale records and tombstones included.                  *)
C20_DropKeepsBytes ==
    /\ \A h \in DOMAIN engines :
          LET r    == drop(World, engines[h], Others(h))
              path == logs[engines[h].log].path
          IN  /\ r.res = "Ok"
              /\ r.w.dir = dir
              /\ r.w.disk[r.w.dir[path]] = LogBytes(World, engines[h])
    /\ (last.op = "drop" /\ atClose.closed)
          => /\ last.res = "Ok"
             /\ DbPath \in DOMAIN dir
             /\ disk[dir[DbPath]] = atClose.bytes

\* The last handle has been dropped and the file holds a tombstone and two
\* records of one key.
C20_Witness ==
    /\ last.op = "drop"
    /\ atClose.closed
    /\ DOMAIN engines = {}
    /\ LET recs == Records(disk[dir[DbPath]])
       IN  /\ \E i \in 1..Len(recs) : recs[i].value = << >>
           /\ \E k \in Keys : Cardinality(RecordsOf(recs, k)) >= 2

---------------------------------------------------------------------------
\* The bytes of a log up to the end of its last fully written record.
GoodPrefix(bytes) == SubSeq(bytes, 1, RecordsLen(Records(bytes)))

(* C16: opening a log whose last bytes are a partially written record      *)
(* succeeds, leaves a file without the torn tail, and the index holds      *)
(* exactly the effect of the fully written records before it.              *)
C16_TornTailTruncated ==
    (last.op = "open") =>
        /\ last.res = "Ok"
        /\ Ready
        /\ \A h \in DOMAIN engines :
              /\ Index(World, engines[h])
                    = build_key_map(GoodPrefix(atClose.bytes)).key_map
              /\ ~build_key_map(LogBytes(World, engines[h])).panic
        /\ ~build_key_map(disk[dir[DbPath]]).panic

---------------------------------------------------------------------------
(* C17: a set or del whose file write fails returns an error to its caller *)
(* (it does not panic), the index is left as the completed writes made it, *)
(* and the engine stays usable: no lock is poisoned and later get, set and *)
(* del calls on any handle return normally.                                *)
C17_WriteFailureIsError ==
    /\ (last.op \in {"get", "set", "del"}) => last.res # "panic"
    /\ poisoned = {}
    /\ \A h \in DOMAIN engines, k \in Keys :
          get(World, engines[h], k) = Lookup(hist, k)

---------------------------------------------------------------------------
\* The payloads of the first n write_entry calls, in call order.
RECURSIVE Payloads(_, _)
Payloads(sent, n) ==
    IF n = 0 THEN << >> ELSE Payloads(sent, n - 1) \o sent[n].data

IsPrefix(a, b) == Len(a) <= Len(b) /\ SubSeq(b, 1, Len(a)) = a

(* C19: in the writer-thread log, once a flush has returned, every record  *)
(* handed to write_entry before that flush was called is in the file, and  *)
(* a replay of the file yields those records.                              *)
C19_FlushedIsInFile ==
    (producers.promised > 0) =>
        LET want == producers.start \o Payloads(producers.sent, producers.promised)
        IN  /\ IsPrefix(want, writer.file)
            /\ IsPrefix(Records(want), Records(writer.file))
            /\ ~Log_build_key_map(writer.file).panic

---------------------------------------------------------------------------
\* out is the content of the range lo..hi of the index m: its pairs are the
\* pairs of m with lo <= k < hi and its keys ascend strictly.
IsRangeOf(out, m, lo, hi) ==
    /\ {out[i] : i \in 1..Len(out)}
          = {<<k, m[k]>> : k \in {x \in DOMAIN m :
                                     ~BytesBefore(x, lo) /\ BytesBefore(x, hi)}}
    /\ \A i \in 1..Len(out), j \in 1..Len(out) :
          i < j => BytesBefore(out[i][1], out[j][1])

(* C13: a scan that runs while other threads set and del returns the range *)
(* content of one single index state that existed between its call and its *)
(* return; what it has collected so far is always the beginning of the     *)
(* range content of the index it is reading; the returned pairs stay as    *)
(* they are whatever is written afterwards.                                *)
C13_ScanIsSnapshot ==
    \A t \in DOMAIN threads :
        LET th == threads[t]
        IN  /\ (th.op = "scan" /\ th.pc = "idle" /\ th.res = "Ok")
                  => \E m \in th.seen : IsRangeOf(th.out, m, th.key, th.hi)
            /\ (th.pc = "scan_iter")
                  => /\ Index(World, engines[t]) \in th.seen
                     /\ \E rest \in SUBSET DOMAIN Index(World, engines[t]) :
                           IsRangeOf(th.out \o
                                       [i \in 1..Cardinality(rest) |->
                                           LET k == SortedKeys(rest)[i]
                                           IN  <<k, Index(World, engines[t])[k]>>],
                                     Index(World, engines[t]), th.key, th.hi)

\* A scan has returned pairs, a write was committed between its call and
\* its return, and another write has changed the index since.
C13_Witness ==
    \E t \in DOMAIN threads :
        /\ threads[t].op = "scan"
        /\ threads[t].pc = "idle"
        /\ Len(threads[t].out) >= 1
        /\ Cardinality(threads[t].seen) >= 2
        /\ Index(World, engines[t]) \notin threads[t].seen
        /\ ~IsRangeOf(threads[t].out, Index(World, engines[t]),
                      threads[t].key, threads[t].hi)

---------------------------------------------------------------------------
(* C14: with every thread working on its own key through its own clone,    *)
(* under every interleaving no get, set or del fails, every get returns    *)
(* the calling thread's own latest write, and when no call is in progress  *)
(* every key holds the value of its thread's last write, through every     *)
(* handle.                                                                 *)
C14_OwnKeys ==
    /\ \A t \in DOMAIN threads :
          /\ (threads[t].op \in {"get", "set", "del"}) => threads[t].res = "Ok"
          /\ (threads[t].op = "get" /\ threads[t].pc = "idle")
                => threads[t].out = threads[t].mine
    /\ (\A t \in DOMAIN threads : threads[t].pc = "idle")
          => \A t \in DOMAIN threads, g \in DOMAIN engines :
                get(World, engines[g], OwnKey(t)) = threads[t].mine

\* All calls are over: one thread has read back the value it set, another
\* has deleted its key.
C14_Witness ==
    /\ sched.calls = MaxConcCalls
    /\ threads # << >>
    /\ \A t \in DOMAIN threads : threads[t].pc = "idle"
    /\ \E t \in DOMAIN threads, u \in DOMAIN threads :
          /\ t # u
          /\ threads[t].op = "get"
          /\ threads[t].out = Some(<<8>>)
          /\ threads[u].op = "del"
          /\ threads[u].mine = None
          /\ BytesBefore(<< >>, LogBytes(World, engines[u]))

---------------------------------------------------------------------------
(* C21 as claimed: when the rename of compaction fails, the file at the    *)
(* primary path holds the bytes it held when Engine::new started, and no   *)
(* file is left at the sibling path with the extension "new".              *)
C21_RenameFailureCleansUp ==
    opening.end = "rename failed" =>
        /\ opening.path \in DOMAIN dir
        /\ disk[dir[opening.path]] = opening.before
        /\ set_extension(opening.path, "new") \notin DOMAIN dir

---------------------------------------------------------------------------
(* C22: under parallel set and del through several handles the records     *)
(* appended to the log file are, in file order, the index updates in the   *)
(* order they were made, followed by at most the one record whose index    *)
(* update is still to come; and when no write is between its append and    *)
(* its index update, the index holds for every key the value of the key's  *)
(* last record (nothing when that record is a tombstone).                  *)
C22_LogOrderIsCommitOrder ==
    \A e \in {engines[h] : h \in DOMAIN engines} :
        LET recs     == Records(LogBytes(World, e))
            n0       == Cardinality(DOMAIN hist)
            appended == SubSeq(recs, n0 + 1, Len(recs))
            between  == {t \in DOMAIN threads :
                            threads[t].pc \in {"set_insert", "del_remove"}}
        IN  /\ Len(recs) >= n0
            /\ IsPrefix(sched.commits, appended)
            /\ Len(appended) = Len(sched.commits) + Cardinality(between)
            /\ Cardinality(between) <= 1
            /\ between = {} =>
                  \A k \in RecordKeys(recs) :
                     Lookup(Index(World, e), k)
                        = IF LastRecord(recs, k).value = << >>
                          THEN None ELSE Some(LastRecord(recs, k).value)

\* Every thread has made one call, a set or del of one and the same key
\* that was appended and committed, and not all wrote the same value.
C22_Witness ==
    /\ threads # << >>
    /\ sched.calls = NumThreads
    /\ Len(sched.commits) = NumThreads
    /\ \A t \in DOMAIN threads :
          /\ threads[t].pc = "idle"
          /\ threads[t].op \in {"set", "del"}
          /\ threads[t].key = <<1>>
    /\ \E i, j \in 1..Len(sched.commits) :
          sched.commits[i].value # sched.commits[j].value

---------------------------------------------------------------------------
\* The bytes the queued messages carry, in queue order.
RECURSIVE QueuedData(_)
QueuedData(queue) ==
    IF queue = << >> THEN << >> ELSE Head(queue).data \o QueuedData(Tail(queue))

(* C23: in the writer-thread log the bytes that have left the queue (in    *)
(* the file or in the worker's buffer) are the file's bytes at start       *)
(* followed by the whole buffers of the first n write_entry calls, in call *)
(* order, for some n; with the bytes still queued appended they are the    *)
(* buffers of the first m calls, and of all calls while the worker has not *)
(* shut down: no record is reordered, split or interleaved with another,   *)
(* whichever producers made the calls.                                     *)
C23_WriterKeepsOrder ==
    LET out  == writer.file \o writer.buf
        sent == producers.sent
    IN  /\ \E n \in 0..Len(sent) :
              out = producers.start \o Payloads(sent, n)
        /\ \E m \in 0..Len(sent) :
              /\ out \o QueuedData(chan.queue)
                    = producers.start \o Payloads(sent, m)
              /\ chan.open => m = Len(sent)

\* Two producers have each handed in a record, the two records differ, and
\* both are in the file behind the bytes it started with.
C23_Witness ==
    /\ Len(producers.sent) = 2
    /\ producers.sent[1].by # producers.sent[2].by
    /\ producers.sent[1].data # producers.sent[2].data
    /\ producers.start # << >>
    /\ writer.file = producers.start \o producers.sent[1].data
                        \o producers.sent[2].data

---------------------------------------------------------------------------
(* C24: a set or del holds the write lock of the index from before its     *)
(* append until after its index update; whenever the index maps k to v a   *)
(* record (k, v) is in the log file; and whenever a reader holds the read  *)
(* lock, or no write is under way, the index holds for every key exactly   *)
(* what the key's last record says, so that a key whose last record is a   *)
(* tombstone is served to no reader after the del has returned.            *)
C24_AppendBeforeIndex ==
    \A e \in {engines[h] : h \in DOMAIN engines} :
        LET recs    == Records(LogBytes(World, e))
            key_map == Index(World, e)
            writing == {t \in DOMAIN threads :
                           threads[t].pc \in {"set_check", "set_log", "set_write",
                                              "set_insert", "del_check", "del_log",
                                              "del_write", "del_remove"}}
        IN  /\ \A t \in writing : locks.writer = t
            /\ \A k \in DOMAIN key_map :
                  \E i \in 1..Len(recs) :
                     recs[i] = [key |-> k, value |-> key_map[k]]
            /\ (locks.readers # {} \/ writing = {}) =>
                  /\ writing = {}
                  /\ \A k \in RecordKeys(recs) :
                        IF LastRecord(recs, k).value = << >>
                        THEN k \notin DOMAIN key_map
                        ELSE /\ k \in DOMAIN key_map
                             /\ key_map[k] = LastRecord(recs, k).value

\* A del of a key of the index has returned, its tombstone is the last
\* record of the log, and a get of that key by another thread holds the
\* read lock: the index it reads has no such key.
C24_Witness ==
    \E t \in DOMAIN threads, u \in DOMAIN threads :
        LET recs == Records(LogBytes(World, engines[t]))
        IN  /\ t # u
            /\ threads[u].op = "del"
            /\ threads[u].pc = "idle"
            /\ threads[u].key \in DOMAIN hist
            /\ recs # << >>
            /\ recs[Len(recs)] = Tombstone(threads[u].key)
            /\ threads[t].pc = "get_read"
            /\ threads[t].key = threads[u].key
            /\ get(World, engines[t], threads[t].key) = None

---------------------------------------------------------------------------
\* The log file holds one record per entry of the index, with its value.
HoldsExactly(bytes, index) ==
    LET recs == Records(bytes)
    IN  /\ RecordsLen(recs) = Len(bytes)
        /\ Len(recs) = Cardinality(DOMAIN index)
        /\ \A k \in DOMAIN index :
              \E i \in 1..Len(recs) : recs[i] = [key |-> k, value |-> index[k]]

(* C25: no set or del takes effect between the moment compaction reads the *)
(* index and the moment it swaps in the new log and index: while           *)
(* Engine::new is between its first and its last step no handle exists     *)
(* that could write, the index compaction copies from is the one replayed  *)
(* from the log at every step of the copy, what has been copied so far is  *)
(* that index up to the entry the loop has reached, and at the swap the    *)
(* new index is that index and the new file holds exactly its entries; the *)
(* engine returned by the open holds that index and that file.             *)
C25_CompactionAlone ==
    /\ opening.pc # "idle" => DOMAIN engines = {}
    /\ opening.pc \in {"set_len", "copy", "swap"} =>
          LET snapshot == key_maps[opening.s.key_map]
              replayed == build_key_map(opening.before)
          IN  /\ ~replayed.panic
              /\ snapshot = replayed.key_map
              /\ opening.pc # "set_len" =>
                    /\ opening.new_key_map
                          = Restrict(snapshot,
                                     DOMAIN snapshot
                                        \ {opening.todo[i] :
                                              i \in 1..Len(opening.todo)})
                    /\ HoldsExactly(disk[opening.new_log.file],
                                    opening.new_key_map)
              /\ opening.pc = "swap" => opening.new_key_map = snapshot
    /\ (last.op = "open" /\ last.res = "Ok") =>
          \A h \in DOMAIN engines : Compacted(World, engines[h])

\* The session before set two keys and was closed; the Engine::new after
\* it has copied both entries and renamed the file, and is about to swap.
C25_Witness ==
    /\ opening.pc = "swap"
    /\ atClose.closed
    /\ Cardinality(DOMAIN atClose.key_map) = 2
    /\ opening.new_key_map = atClose.key_map

---------------------------------------------------------------------------
(* C26 as claimed: a process killed at any step of the compaction of       *)
(* Engine::new leaves at the primary path a file that replays to the index *)
(* the file replayed to when Engine::new started; up to the rename the     *)
(* file at the primary path holds the very bytes it held then.             *)
C26_CrashKeepsPrimary ==
    /\ opening.end = "crashed" =>
          /\ opening.path \in DOMAIN dir
          /\ build_key_map(disk[dir[opening.path]])
                = build_key_map(opening.before)
    /\ opening.pc \in {"build_key_map", "construct_log", "set_len", "copy"} =>
          /\ opening.path \in DOMAIN dir
          /\ disk[dir[opening.path]] = opening.before

---------------------------------------------------------------------------
(* C27 as claimed: once Engine::new has returned an engine, hence after    *)
(* its compaction, no file exists at the sibling path (the primary path    *)
(* with the extension "new"), and the log of every handle has the primary  *)
(* path and holds the file that the directory has at that path.            *)
C27_NoSiblingAfterOpen ==
    (Ready /\ opening.pc = "idle") =>
        /\ set_extension(opening.path, "new") \notin DOMAIN dir
        /\ \A h \in DOMAIN engines :
              /\ logs[engines[h].log].path = opening.path
              /\ opening.path \in DOMAIN dir
              /\ dir[opening.path] = logs[engines[h].log].file

---------------------------------------------------------------------------
(* C28: the size check of write_entry never fires. No open, set or del has *)
(* panicked; in every ready state every key of the index has at most 1024  *)
(* bytes and every value at most 262144, and so has every record of the    *)
(* log file; a del of any key, a key of more than 1024 bytes included, a   *)
(* set of any key and value, and a compaction would not panic either.      *)
C28_WriteEntryNeverPanics ==
    /\ last.op \in {"open", "set", "del"} => last.res # "panic"
    /\ \A e \in {engines[h] : h \in DOMAIN engines} :
          LET key_map == Index(World, e)
              recs    == Records(LogBytes(World, e))
          IN  /\ \A k \in DOMAIN key_map :
                    Len(k) <= MaxKeyLen /\ Len(key_map[k]) <= MaxValueLen
              /\ \A i \in 1..Len(recs) :
                    /\ Len(recs[i].key) <= MaxKeyLen
                    /\ Len(recs[i].value) <= MaxValueLen
              /\ \A k \in Keys :
                    /\ del(World, e, k).res = "Ok"
                    /\ \A v \in Values :
                          set(World, e, k, v).res # "panic"
              /\ compact(World, e, {engines[h] : h \in DOMAIN engines}).res
                    = "Ok"

\* A del of a key of 1025 bytes has returned Ok on an engine whose index
\* and log are not empty.
C28_Witness ==
    /\ last.op = "del"
    /\ last.key = BigKey
    /\ last.res = "Ok"
    /\ \E h \in DOMAIN engines :
          /\ DOMAIN Index(World, engines[h]) # {}
          /\ LogBytes(World, engines[h]) # << >>

---------------------------------------------------------------------------
\* The record of key and value as the format lays it out.
RecordBytes(key, value) ==
    to_be_bytes(Len(key)) \o to_be_bytes(Len(value)) \o key \o value

(* C30: between compactions the log is append-only. In every ready state a *)
(* set or del of any key and value leaves the log file as it is or leaves  *)
(* it as it is followed by exactly one record, the 8 + |k| + |v| bytes of  *)
(* the key and the value written (an empty value for del); and the set or  *)
(* del that has just returned has added no byte or one such record.        *)
C30_AppendOnly ==
    /\ \A e \in {engines[h] : h \in DOMAIN engines} :
          LET before == LogBytes(World, e)
          IN  \A k \in Keys :
                 /\ LET after == LogBytes(del(World, e, k).w, e)
                    IN  \/ after = before
                        \/ /\ Len(after) = Len(before) + 8 + Len(k)
                           /\ after = before \o RecordBytes(k, << >>)
                 /\ \A v \in Values :
                       LET after == LogBytes(set(World, e, k, v).w, e)
                       IN  \/ after = before
                           \/ /\ Len(after) = Len(before) + 8 + Len(k) + Len(v)
                              /\ after = before \o RecordBytes(k, v)
    /\ last.op \in {"set", "del"} =>
          \/ last.appended = 0
          \/ /\ last.appended >= 8 + Len(last.key)
             /\ \A h \in DOMAIN engines :
                   LET bytes == LogBytes(World, engines[h])
                       recs  == Records(bytes)
                   IN  /\ RecordsLen(recs) = Len(bytes)
                       /\ recs # << >>
                       /\ recs[Len(recs)].key = last.key
                       /\ RecordLen(recs[Len(recs)]) = last.appended

\* A del has just appended its tombstone of 8 + |k| bytes behind the
\* records the log file held before.
C30_Witness ==
    /\ last.op = "del"
    /\ last.res = "Ok"
    /\ last.appended = 8 + Len(last.key)
    /\ \E h \in DOMAIN engines :
          Len(Records(LogBytes(World, engines[h]))) >= 3

---------------------------------------------------------------------------
\* The map that sends each key to the value of its last record, without the
\* keys whose last record has an empty value.
LastWins(recs) ==
    [k \in {x \in RecordKeys(recs) : LastRecord(recs, x).value # << >>} |->
        LastRecord(recs, k).value]

(* C29: the replay of a well-formed log never panics and terminates; at    *)
(* every turn of its loop it stands at the end of the n-th record, that is *)
(* at the sum of 8 + key_len + value_len of the first n records, with the  *)
(* map that sends each key to the value of its last record among those n   *)
(* (absent when that record has value_len = 0); it returns at end-of-file  *)
(* with that map for all records, which is also what the replay of the     *)
(* whole file in one go computes.                                          *)
C29_ReplayLastWins ==
    /\ [](LET bytes == disk[dir[opening.path]]
              recs  == Records(bytes)
          IN  /\ opening.end # "panicked"
              /\ RecordsLen(recs) = Len(bytes)
              /\ opening.pc = "replay" =>
                    /\ \E n \in 0..Len(recs) :
                          /\ opening.pos = RecordsLen(SubSeq(recs, 1, n))
                          /\ opening.key_map = LastWins(SubSeq(recs, 1, n))
                    /\ replay(bytes, opening.pos, opening.key_map)
                          = build_key_map(bytes)
              /\ opening.end = "replayed" =>
                    /\ opening.pos = Len(bytes)
                    /\ opening.key_map = LastWins(recs)
                    /\ build_key_map(bytes)
                          = [panic |-> FALSE, key_map |-> opening.key_map])
    /\ <>(opening.end = "replayed")

\* The replay has returned from a file of three records in which a key is
\* set, deleted and set again.
C29_Witness ==
    /\ opening.end = "replayed"
    /\ LET recs == Records(disk[dir[opening.path]])
       IN  /\ Len(recs) = 3
           /\ recs[1].key = recs[3].key
           /\ recs[1].value # << >>
           /\ recs[2] = Tombstone(recs[1].key)
           /\ recs[3].value # << >>
    /\ DOMAIN opening.key_map # {}

---------------------------------------------------------------------------
(* C31: in the writer-thread log, once the worker has stopped on a         *)
(* Shutdown, the file holds the bytes it started with followed by the      *)
(* buffers of exactly the write_entry calls made before the first shutdown *)
(* call, in call order, and nothing is left in the worker's buffer: every  *)
(* Write enqueued before Shutdown is in the file, and no Write made later, *)
(* in particular none made after the worker consumed Shutdown, is.         *)
C31_ShutdownFlushesThenStops ==
    (~writer.running /\ producers.shut >= 0) =>
        /\ writer.buf = << >>
        /\ writer.file
              = producers.start \o Payloads(producers.sent, producers.shut)

\* The worker has stopped; a record was handed in before the shutdown call
\* and stayed in the worker's buffer until then, and another record was
\* handed in after the worker had consumed Shutdown.
C31_Witness ==
    /\ ~writer.running
    /\ producers.shut = 1
    /\ producers.promised = 0
    /\ Len(producers.sent) = 2
    /\ ~producers.sent[2].queued
    /\ writer.file = producers.start \o producers.sent[1].data

---------------------------------------------------------------------------
\* The worker has printed an error for a message it consumed.
HasFailed(w) ==
    \E i \in 1..Len(w.outcomes) : w.outcomes[i] # "ok"

(* C32: in the writer-thread log an I/O error of the worker on a Write or  *)
(* a Flush ends nothing: the step that fails consumes its message and      *)
(* leaves the worker running and the channel open, the worker stops only   *)
(* by consuming a Shutdown, and in every state, whatever the worker has    *)
(* met so far, write_entry, flush and shutdown of every producer can be    *)
(* called and return.                                                      *)
C32_WorkerErrorsAreOnlyLogged ==
    /\ [][(Len(writer'.outcomes) > Len(writer.outcomes)
            /\ writer'.outcomes[Len(writer'.outcomes)] # "ok")
          => /\ writer'.running
             /\ chan'.open
             /\ chan'.queue = Tail(chan.queue)]_vars
    /\ [][(writer.running /\ ~writer'.running)
          => Head(chan.queue).tag = "Shutdown"]_vars
    /\ [](producers.calls < MaxCalls =>
            \A p \in IoProducers :
                /\ ENABLED WriterFlush(p)
                /\ ENABLED WriterShutdown(p)
                /\ \A value \in WriterIoValues :
                      ENABLED WriteEntry(p, <<1>>, value))

\* A Write failed in the worker, and the record of a write_entry called
\* after it was consumed without an error and was flushed to the file.
C32_Witness ==
    /\ writer.running
    /\ writer.outcomes = <<"Failed to write log", "ok", "ok">>
    /\ Len(producers.sent) = 2
    /\ producers.promised = 2
    /\ writer.buf = << >>
    /\ IsPrefix(producers.sent[2].data,
                SubSeq(writer.file, Len(writer.file) - Len(producers.sent[2].data) + 1,
                       Len(writer.file)))

---------------------------------------------------------------------------
(* C33: a step in which get or scan is called and returns changes nothing  *)
(* but the caller's view of the result: the directory, the content of      *)
(* every file, every Log and every index are the same after the call as    *)
(* before it, for every handle, every key and every range, the range with  *)
(* lo > hi included.                                                       *)
C33_ReadsMutateNothing ==
    [][(last' # last /\ last'.op \in {"get", "scan"})
       => UNCHANGED <<dir, disk, logs, key_maps, engines>>]_vars

\* A get has just returned the value of a key, and a handle's index still
\* holds the key with that value and its log still holds the record.
C33_Witness ==
    /\ last.op = "get"
    /\ last.out # None
    /\ \E h \in DOMAIN engines :
          /\ Lookup(Index(World, engines[h]), last.key) = last.out
          /\ RecordsOf(Records(LogBytes(World, engines[h])), last.key) # {}

---------------------------------------------------------------------------
(* C34: the two size limits of set are inclusive. In every state of the    *)
(* sessions at the limits, for every handle, every key of 1 to 1024 bytes  *)
(* and every value of 1 to 262144 bytes, the key of exactly 1024 bytes and *)
(* the value of exactly 262144 bytes included, set(k, v) returns Ok, never *)
(* InvalidInput and never a panic of write_entry, and a get(k) after it    *)
(* returns Some(v).                                                        *)
C34_LimitsAreInclusive ==
    \A e \in {engines[h] : h \in DOMAIN engines} :
        \A key \in LimitKeys, value \in LimitValues :
            (/\ 1 <= Len(key) /\ Len(key) <= MaxKeyLen
             /\ 1 <= Len(value) /\ Len(value) <= MaxValueLen)
            => LET r == set(World, e, key, value)
               IN  /\ r.res = "Ok"
                   /\ get(r.w, e, key) = Some(value)

\* A set of a key of exactly 1024 bytes has returned Ok and appended its
\* record, the index maps the key to the value, and in this state the set
\* of that key to a value of exactly 262144 bytes returns Ok and leaves the
\* index mapping the key to the 262144 bytes.
C34_Witness ==
    /\ last.op = "set"
    /\ last.res = "Ok"
    /\ Len(last.key) = MaxKeyLen
    /\ last.appended = 8 + MaxKeyLen + 1
    /\ \E h \in DOMAIN engines :
          /\ get(World, engines[h], last.key) = Some(<<7>>)
          /\ LET r == set(World, engines[h], last.key, FullValue)
             IN  /\ r.res = "Ok"
                 /\ Len(LogBytes(r.w, engines[h]))
                       = Len(LogBytes(World, engines[h]))
                            + 8 + MaxKeyLen + MaxValueLen
                 /\ get(r.w, engines[h], last.key) # None
                 /\ Len(get(r.w, engines[h], last.key)[1]) = MaxValueLen

---------------------------------------------------------------------------
\* Thread t is inside a call; it is not.
InCall(t) ==
    IF t \in DOMAIN threads THEN threads[t].pc # "idle" ELSE FALSE

Returned(t) ==
    IF t \in DOMAIN threads THEN threads[t].pc = "idle" ELSE FALSE

\* Thread t holds no lock of the engine.
HoldsNothing(t) ==
    /\ locks.writer # t
    /\ t \notin locks.readers
    /\ locks.mutex # t

(* C35: the threads that call get, set, del and scan through their clones  *)
(* never block each other for ever. A thread about to take the index lock  *)
(* (read or write; the set of an empty value, which has gone to del,       *)
(* included) holds no lock; a thread that waits for the mutex of the log   *)
(* or holds it holds the write lock of the index, so the mutex is only     *)
(* taken inside the index lock; an idle thread holds no lock; and, the     *)
(* threads being scheduled, whenever calls are under way a moment follows  *)
(* at which every thread has returned from its call.                       *)
C35_DeadlockFree ==
    /\ [](\A t \in DOMAIN threads :
            /\ threads[t].pc \in {"get_lock", "scan_lock", "set_lock", "del_lock"}
                  => HoldsNothing(t)
            /\ threads[t].pc \in {"set_log", "del_log"}
                  => locks.writer = t /\ locks.mutex # t
            /\ locks.mutex = t
                  => locks.writer = t
                     /\ threads[t].pc \in {"set_write", "del_write"}
            /\ threads[t].pc = "idle" => HoldsNothing(t))
    /\ (\E t \in Threads : InCall(t)) ~> (\A t \in Threads : Returned(t))

\* A thread holds the write lock of the index and the mutex of the log
\* while another thread, which called set with an empty value, waits for
\* the write lock inside del.
C35_Witness ==
    \E t, u \in DOMAIN threads :
        /\ locks.writer = t
        /\ locks.mutex = t
        /\ threads[u].op = "set"
        /\ threads[u].value = << >>
        /\ threads[u].pc = "del_lock"

---------------------------------------------------------------------------
(* C36: in the writer-thread log, in every state, the failures of the      *)
(* worker's writes included, the bytes of the file are the bytes it        *)
(* started with followed by a prefix of the buffers of the write_entry     *)
(* calls in call order: nothing of a later record is in the file behind a  *)
(* record that is not completely there.                                    *)
C36_FileIsPrefixOfPayloads ==
    IsPrefix(writer.file,
             producers.start \o Payloads(producers.sent, Len(producers.sent)))

---------------------------------------------------------------------------
\* The Log, the file and the index of the engine value e exist in w.
Usable(w, e) ==
    /\ e.log \in DOMAIN w.logs
    /\ e.key_map \in DOMAIN w.key_maps
    /\ w.logs[e.log].file \in DOMAIN w.disk

(* C37: dropping a handle while clones of it remain returns Ok and leaves  *)
(* every remaining clone with its Log, its file and its index, unchanged.  *)
(* On the state after the drop, for every remaining clone, every key and   *)
(* every value: get and scan return what they returned before the drop; a  *)
(* set of a new non-empty value appends exactly its record and makes every *)
(* remaining clone's get return the value; a del of a key that is present  *)
(* appends exactly its tombstone and makes every remaining clone's get     *)
(* return None.                                                            *)
C37_DropLeavesClonesUsable ==
    \A h \in DOMAIN engines :
        LET d == drop(World, engines[h], Others(h))
        IN  /\ d.res = "Ok"
            /\ \A o \in Others(h) :
                  /\ Usable(d.w, o)
                  /\ Index(d.w, o) = Index(World, o)
                  /\ LogBytes(d.w, o) = LogBytes(World, o)
                  /\ \A key \in Keys :
                        /\ get(d.w, o, key) = get(World, o, key)
                        /\ LET r == del(d.w, o, key)
                           IN  get(World, o, key) # None =>
                                 /\ r.res = "Ok"
                                 /\ LogBytes(r.w, o)
                                       = LogBytes(World, o) \o RecordBytes(key, << >>)
                                 /\ \A o2 \in Others(h) : get(r.w, o2, key) = None
                        /\ \A value \in Values :
                              LET r == set(d.w, o, key, value)
                              IN  (/\ Len(key) <= MaxKeyLen
                                   /\ value # << >>
                                   /\ Len(value) <= MaxValueLen
                                   /\ get(World, o, key) # Some(value)) =>
                                     /\ r.res = "Ok"
                                     /\ LogBytes(r.w, o)
                                           = LogBytes(World, o) \o RecordBytes(key, value)
                                     /\ \A o2 \in Others(h) :
                                           get(r.w, o2, key) = Some(value)
                  /\ \A range \in Ranges :
                        scan(d.w, o, range[1], range[2])
                           = scan(World, o, range[1], range[2])

\* The first handle was dropped while its clone remained, and the clone
\* has then set a key: the record was appended and the index, which held a
\* key before the drop, holds both keys.
C37_Witness ==
    /\ DOMAIN engines = {2}
    /\ last.op = "set"
    /\ last.res = "Ok"
    /\ last.appended > 0
    /\ Cardinality(DOMAIN Index(World, engines[2])) >= 2
    /\ get(World, engines[2], last.key) # None

---------------------------------------------------------------------------
(* C38: scan is total. In every ready state and for every pair of bounds,  *)
(* lo = hi and lo > hi included, scan(lo..hi) returns Ok with exactly the  *)
(* pairs of the index with lo <= k < hi in ascending key order, which are  *)
(* no pairs when lo >= hi.                                                 *)
C38_ScanIsTotal ==
    \A e \in {engines[h] : h \in DOMAIN engines}, lo \in ScanBounds,
       hi \in ScanBounds :
        LET r == scan(World, e, lo, hi)
        IN  /\ r.res = "Ok"
            /\ IsRangeOf(r.out, Index(World, e), lo, hi)
            /\ ~BytesBefore(lo, hi) => r.out = << >>

---------------------------------------------------------------------------
(* C39: the temporary path of a compaction differs from the primary path,  *)
(* whatever the primary path (with an extension, without one, with the     *)
(* extension "new"): once compact has formed the path and construct_log    *)
(* has opened it, the new Log has another path and another file than the   *)
(* primary log, and once that file has been truncated the file at the      *)
(* primary path still holds the bytes it held when Engine::new started.    *)
C39_TmpPathDiffers ==
    /\ opening.pc \in {"set_len", "copy"} =>
          /\ opening.new_log.path = set_extension(opening.path, "new")
          /\ opening.new_log.path # opening.path
          /\ opening.path \in DOMAIN dir
          /\ opening.new_log.file # dir[opening.path]
    /\ opening.pc = "copy" =>
          disk[dir[opening.path]] = opening.before

===========================================================================
